---------------------------- MODULE Spec2Model ----------------------------
(***************************************************************************)
(* zkVM core: the bytecode interpreter (src/src/vm.rs) and the proof       *)
(* system with its LRU proof cache (src/src/proof.rs).                     *)
(*                                                                         *)
(* Spec       the interpreter: one VM, created by VM::new(program), run by *)
(*            VM::execute, one action per opcode arm of the loop; the      *)
(*            ZKVM of src/src/lib.rs records each successful run.          *)
(* RootSpec   compute_state_root over storage maps and logs of every       *)
(*            layout.                                                      *)
(* CircuitSpec  VMCircuit::synthesize (src/src/circuit.rs) over programs   *)
(*            and witnesses.                                               *)
(* ArithSpec  the i64 addition and multiplication of ADD and MUL at full   *)
(*            width.                                                       *)
(* PeerSpec   Peer and PeerManager (src/src/network/peer.rs).              *)
(* SyncSpec   StateSync (src/src/network/sync.rs).                         *)
(* ProofSpec  the proof system: prove / verify / batch_verify over a       *)
(*            bounded LRU cache.                                           *)
(***************************************************************************)
EXTENDS Integers, Sequences, FiniteSets, TLC

VARIABLES
    program,        \* VM.program: Vec<u8>
    stack,          \* ExecutionContext.stack
    memory,         \* ExecutionContext.memory: HashMap<usize, Value>
    storage,        \* ExecutionContext.storage: its entries in the order HashMap::iter yields them
    pc,             \* ExecutionContext.program_counter
    gas,            \* ExecutionContext.gas_remaining
    call_stack,     \* ExecutionContext.call_stack
    state_root,     \* ExecutionContext.state_root
    logs,           \* ExecutionContext.logs
    result,         \* outcome of VM::execute: <<"running">>, <<"Ok">>, <<"Err", kind, ...>>, <<"panic", why>>
    returned,       \* what the earlier calls of execute on this VM returned, in order
    executed,       \* the instructions the interpreter has completed: opcode and gas debited
    vm_state,       \* ZKVM.state: VMState
    proof_cache,    \* ProofSystem.proof_cache, most recently used first
    cache_cap,      \* capacity of the LRU cache
    issued,         \* the ProofData values prove has returned
    nonce,          \* randomness consumed by create_random_proof so far
    last_call,      \* the last ProofSystem call: operation, argument, cache before it, result
    zkvm_circuit,   \* ZKVM.circuit: Option<VMCircuit>; the circuit's program is `program`
    synth,          \* outcome of VMCircuit::synthesize under the prover's constraint system
    arith,          \* one i64 operation: operands, build profile, outcome
    peers,          \* PeerManager.peers: PeerId -> Peer (status, reputation)
    banned_peers,   \* PeerManager.banned_peers
    max_peers,      \* PeerManager.max_peers
    peer_call,      \* the last PeerManager / Peer call and its result
    updates,        \* number of update_reputation calls made
    sync_state,     \* StateSync.sync_state: SyncState
    batch_size,     \* StateSync.batch_size
    now,            \* the clock read by Instant::now()
    sync_call,      \* the last StateSync call: its number, the time it was made, its result
    consensus,      \* ConsensusEngine.state: ConsensusState
    cons_call,      \* the last ConsensusEngine call: its number, arguments and result
    mm,             \* MemoryManager: page table, segments, permissions, cache, stats
    mm_call,        \* the last MemoryManager call: number, arguments, result; the addresses read so far
    segments,       \* the Vec<MemorySegment> handed to GarbageCollector::collect
    gc,             \* GarbageCollector: marked set and stats
    gc_call         \* the last GarbageCollector call and the list it was given

vmVars == <<program, stack, memory, storage, pc, gas, call_stack, state_root, logs, result,
            returned, executed, vm_state>>
proofVars == <<proof_cache, cache_cap, issued, nonce, last_call>>
zkVars == <<zkvm_circuit, synth>>
peerVars == <<peers, banned_peers, max_peers, peer_call, updates>>
syncVars == <<sync_state, batch_size, now, sync_call>>
consVars == <<consensus, cons_call>>
memVars == <<mm, mm_call>>
gcVars == <<segments, gc, gc_call>>
restVars == <<consVars, memVars, gcVars>>
vars == <<program, stack, memory, storage, pc, gas, call_stack, state_root, logs, result,
          returned, executed, vm_state,
          proof_cache, cache_cap, issued, nonce, last_call,
          zkvm_circuit, synth, arith,
          peers, banned_peers, max_peers, peer_call, updates,
          sync_state, batch_size, now, sync_call,
          consensus, cons_call, mm, mm_call, segments, gc, gc_call>>

\* The variables outside the interpreter and the proof system.
otherVars == <<arith, peerVars, syncVars, restVars>>

---------------------------------------------------------------------------
(* Bounds of the model *)

\* Every byte sequence over Alphabet of at most this length is a program.
MaxProgLen == 3

\* prove is called at most this many times.
MaxProofs == 3

\* The proof cache is built (ProofSystemBuilder::with_cache_size) with a capacity of 1..MaxCap.
MaxCap == 2

\* batch_verify is given lists of at most this many ProofData.
MaxBatch == 1

\* execute is called at most this many times on one VM.
MaxCalls == 2

\* The storage keys are 0..MaxKey.
MaxKey == 2

---------------------------------------------------------------------------
(* Values *)

IntV(n) == [tag |-> "Int", v |-> n]
Bytes(b) == [tag |-> "Bytes", b |-> b]
Address(a) == [tag |-> "Address", a |-> a]
Contract(c) == [tag |-> "Contract", c |-> c]
Bool(b) == [tag |-> "Bool", b |-> b]
ContractData(code, balance) == [code |-> code, storage |-> <<>>, balance |-> balance]

\* Option::None, as returned by Vec::pop on an empty stack.
None == [tag |-> "None"]

IsInt(x) == x.tag = "Int"
IsAddress(x) == x.tag = "Address"
IsContract(x) == x.tag = "Contract"

\* Blake2b512 truncated to its first 32 bytes, as an ideal (collision-free) digest.
Blake2b32(bytes) == [blake2b |-> bytes]

\* The first byte of the digest, for the inputs the model's programs hash: the
\* Blake2b-512 digest of the empty string starts 78 6a 02 f7, that of the byte 00
\* starts 2f, that of the byte ff starts eb.
FirstByte(d) ==
    CASE d.blake2b = <<>> -> 120
      [] d.blake2b = <<0>> -> 47
      [] d.blake2b = <<255>> -> 235

\* `v as usize`, `v as u64` on an i64: the value modulo 2^64.
AsU64(v) == IF v >= 0 THEN v ELSE v + 2^64

\* `balance as i64` on a u64: u itself below 2^63 (u \div 2^60 < 8), else u - 2^64.
AsI64(u) == IF (u \div 2^30) \div 2^30 < 8 THEN u ELSE u - 2^64

---------------------------------------------------------------------------
(* Gas *)

\* GasConfig::default().op_cost
OpCostTable ==
    [op \in (1..15) |->
        CASE op = 1 -> 3
          [] op = 2 -> 5
          [] op = 3 -> 5
          [] op = 4 -> 20
          [] op = 5 -> 20
          [] op = 6 -> 8
          [] op = 7 -> 10
          [] op = 8 -> 3
          [] op = 9 -> 3
          [] op = 10 -> 3
          [] op = 11 -> 400
          [] op = 12 -> 40
          [] op = 13 -> 5
          [] op = 14 -> 50
          [] op = 15 -> 20]

\* GasConfig::default().base
GasBase == 2

\* GasConfig::default().contract_creation
ContractCreationGas == 32000

\* ExecutionContext::new(1_000_000) in VM::new
GasLimit == 1000000

\* the capacity test of PUSH (and Vec::with_capacity) in vm.rs
StackLimit == 1024

\* op_cost.get(&opcode).copied().unwrap_or(base)
GasCostOf(op) == IF op \in DOMAIN OpCostTable THEN OpCostTable[op] ELSE GasBase

---------------------------------------------------------------------------
(* Programs *)

\* The bytes programs are written in: 0x00, the fifteen opcodes 0x01..0x0F of the
\* gas table, 0xFE and STOP 0xFF.
Alphabet == (0..15) \cup {254, 255}

\* s repeated n times
Repeat(s, n) == [i \in 1..(n * Len(s)) |-> s[((i - 1) % Len(s)) + 1]]

ShortPrograms == UNION {[1..n -> Alphabet] : n \in 0..MaxProgLen}

\* PUSH 0, PUSH 0, CREATE: a contract with empty code and balance 0.
CreateUnit == <<1, 0, 1, 0, 11>>

\* CreateUnit, then both results stored at memory[0]: the stack is empty again.
CreateStoreUnit == <<1, 0, 1, 0, 11, 1, 0, 4, 1, 0, 4>>

\* PUSH 0, PUSH 0, SHA3, PUSH 0, STORE: 79 gas, the stack is empty again.
Sha3StoreUnit == <<1, 0, 1, 0, 14, 1, 0, 4>>

\* 1,000,000 gas less 30 * 32452 and 334 * 79: 54 gas are left, on an empty stack,
\* with memory[0] set.
BurnPrefix == Repeat(CreateStoreUnit, 30) \o Repeat(Sha3StoreUnit, 334)

\* After BurnPrefix: 16 PUSHes leave 6 gas; then one byte of the alphabet, or ADD
\* (1 gas left) and one byte of the alphabet.
BurnPrograms ==
    {BurnPrefix \o Repeat(<<1, 0>>, 16) \o <<a>> : a \in Alphabet}
    \cup {BurnPrefix \o Repeat(<<1, 0>>, 16) \o <<2, b>> : b \in Alphabet}

\* A full stack (1024 entries, memory[0] set), then one byte of the alphabet.
FullStackPrograms ==
    {<<1, 0, 1, 0, 4>> \o Repeat(<<1, 0>>, StackLimit) \o <<a, 0>> : a \in Alphabet}

\* CREATE, the contract stored at memory[0x78] (the first byte of its address), the
\* address kept at memory[5]; then CALL, RETURN, BALANCE.
ContractProgram ==
    <<1, 0, 1, 0, 11, 1, 120, 4, 1, 5, 4,
      1, 7, 1, 9, 1, 5, 5, 12,
      1, 0, 1, 1, 13,
      1, 5, 5, 15, 255>>

\* test_memory_operations, scenario C: PUSH 42, STORE 0, PUSH 55, STORE 1, LOAD 0,
\* LOAD 1, ADD, STOP, the addresses written as bytes after STORE and LOAD.
MemoryProgram == <<1, 42, 4, 0, 1, 55, 4, 1, 5, 0, 5, 1, 2, 255>>

ScenarioPrograms ==
    { <<1, 5, 1, 3, 2, 255>>,                                  \* scenario A
      <<1, 5, 1, 3, 2, 1, 2, 3, 255>>,                         \* scenario B
      MemoryProgram,                                           \* scenario C
      <<1, 5, 1, 3, 2, 4, 0, 255>>,                            \* test_gas_accounting
      <<1, 42, 1, 0, 4, 1, 0, 5, 255>>,                        \* STORE then LOAD
      <<1, 1, 1, 0, 11, 255>>,                                 \* CREATE with one byte of code
      <<1, 9, 1, 0, 11>>,                                      \* CREATE past the end
      <<1, 0, 1, 2, 14>>, <<1, 4, 1, 9, 14>>,                  \* SHA3 in and out of range
      <<1, 0, 1, 2, 13, 255>>,                                 \* RETURN without a frame
      Repeat(CreateUnit, 31),                                  \* 31 CREATEs: the gas runs out
      ContractProgram,
      SubSeq(ContractProgram, 1, 11) \o <<1, 5, 5, 15, 255>>,
      SubSeq(ContractProgram, 1, 19) \o <<1, 0, 1, 99, 13>> }

\* Immediate bytes of the arithmetic programs.
Immediates == {0, 1, 2, 3, 5, 128, 255}

\* PUSH a, PUSH b, ADD, STOP
AddProgram(a, b) == <<1, a, 1, b, 2, 255>>

\* PUSH a, PUSH b, ADD, PUSH c, MUL, STOP
AddMulProgram(a, b, c) == <<1, a, 1, b, 2, 1, c, 3, 255>>

ArithPrograms ==
    {AddProgram(a, b) : a, b \in Immediates}
    \cup {AddMulProgram(a, b, c) : a, b, c \in Immediates}

Programs ==
    ShortPrograms \cup ScenarioPrograms \cup FullStackPrograms \cup BurnPrograms
    \cup ArithPrograms

---------------------------------------------------------------------------
(* The interpreter *)

\* ExecutionContext::use_gas
UseGas(g, amount) ==
    IF g < amount THEN [ok |-> FALSE, gas |-> g] ELSE [ok |-> TRUE, gas |-> g - amount]

\* Vec::pop
Pop(s) ==
    IF s = <<>> THEN [value |-> None, rest |-> s]
    ELSE [value |-> s[Len(s)], rest |-> SubSeq(s, 1, Len(s) - 1)]

\* HashMap::insert
MapInsert(m, k, v) == [x \in (DOMAIN m) \cup {k} |-> IF x = k THEN v ELSE m[x]]

\* &program[from .. to] panics unless from <= to <= program.len()
SliceOk(from, to) == from <= to /\ to <= Len(program)
Slice(from, to) == SubSeq(program, from + 1, to)

\* i64::to_le_bytes / u64::to_le_bytes of a value in 0..2^31-1
LeBytes(n) == [i \in 1..8 |-> IF i <= 4 THEN (n \div 256^(i - 1)) % 256 ELSE 0]

\* The bytes compute_state_root feeds the hasher for one value.
ValueBytes(v) ==
    CASE v.tag = "Int" -> LeBytes(v.v)
      [] v.tag = "Bool" -> <<IF v.b THEN 1 ELSE 0>>
      [] v.tag = "Bytes" -> <<v.b>>
      [] v.tag = "Address" -> <<v.a>>
      [] v.tag = "Contract" -> v.c.code \o LeBytes(v.c.balance)

RECURSIVE SortByKey(_)
\* par_sort_by_key, a stable sort: the entries in ascending key order. A key k
\* stands for the 32-byte array whose big-endian value is k.
SortByKey(entries) ==
    IF entries = <<>> THEN <<>>
    ELSE LET e == Head(entries)
             rest == SortByKey(Tail(entries))
             n == Cardinality({i \in 1..Len(rest) : rest[i].key < e.key})
         IN SubSeq(rest, 1, n) \o <<e>> \o SubSeq(rest, n + 1, Len(rest))

RECURSIVE HashEntries(_)
\* what the loop over storage_vec feeds the hasher: each key, then its value's bytes
HashEntries(entries) ==
    IF entries = <<>> THEN <<>>
    ELSE <<Head(entries).key>> \o ValueBytes(Head(entries).value) \o HashEntries(Tail(entries))

RECURSIVE SerializeLogs(_)
\* each log's address, topics and data, in order
SerializeLogs(lg) ==
    IF lg = <<>> THEN <<>>
    ELSE <<Head(lg).address>> \o Head(lg).topics \o Head(lg).data \o SerializeLogs(Tail(lg))

\* compute_state_root without the sort: the entries hashed as iter yields them
ComputeStateRootUnsorted(st, lg) == Blake2b32(HashEntries(st) \o SerializeLogs(lg))

\* ExecutionContext::compute_state_root
ComputeStateRoot(st, lg) == Blake2b32(HashEntries(SortByKey(st)) \o SerializeLogs(lg))

\* [0; 32]
ZeroRoot == [blake2b |-> "zero"]

Running == result = <<"running">> /\ pc < Len(program)
Opcode == program[pc + 1]

\* What one pass through the loop leaves: new stack, memory, pc, gas, call stack,
\* outcome, and the instructions completed.
Leave(st, m, p, g, cs, r, ex) ==
    /\ stack' = st
    /\ memory' = m
    /\ pc' = p
    /\ gas' = g
    /\ call_stack' = cs
    /\ result' = r
    /\ executed' = ex
    /\ UNCHANGED <<program, storage, logs, state_root, returned, vm_state>>
    /\ UNCHANGED <<proofVars, zkVars, otherVars>>

\* An arm ran to its end: the instruction at pc is completed, gas - g was debited.
Commit(st, m, p, g, cs, r) ==
    Leave(st, m, p, g, cs, r, Append(executed, [opcode |-> program[pc + 1], gas_cost |-> gas - g]))

\* `return Err(e)` / `?` / a panic after the arm changed gas and stack.
Fail(st, g, r) == Leave(st, memory, pc, g, call_stack, r, executed)

\* context.use_gas(gas_cost)? at the head of the loop failed
GasFail == Fail(stack, gas, <<"Err", "GasLimitExceeded">>)

Underflow == <<"Err", "StackUnderflow">>
IndexPanic == <<"panic", "index out of bounds">>

\* lib.rs ExecutionStep
ExecutionStep(opcode, stack_snapshot, memory_snapshot, gas_cost) ==
    [opcode |-> opcode, stack_snapshot |-> stack_snapshot,
     memory_snapshot |-> memory_snapshot, gas_cost |-> gas_cost]

\* VMState::default()
VMStateDefault == [gas_used |-> 0, execution_trace |-> <<>>, state_root |-> ZeroRoot]

\* lru::LruCache::new(1000) in ProofSystem::setup
DefaultCacheSize == 1000

\* VMCircuit::new(program, max_steps): no witness
VMCircuitNew(max_steps) ==
    [initial_state |-> None, final_state |-> None, max_steps |-> max_steps]

\* VMCircuit::new(program.clone(), 1000) in ZKVM::new
DefaultMaxSteps == 1000

\* SyncState::new(), created at time t
SyncStateNew(t) ==
    [status |-> <<"Idle">>,
     pending_requests |-> <<>>,
     completed_requests |-> {},
     failed_requests |-> <<>>,
     sync_queue |-> <<>>,
     last_progress |-> t]

\* The parts of the state a specification does not use, as constructed.
VmIdle ==
    /\ program = <<>>
    /\ stack = <<>>
    /\ memory = <<>>
    /\ storage = <<>>
    /\ pc = 0
    /\ gas = GasLimit
    /\ call_stack = <<>>
    /\ state_root = ZeroRoot
    /\ logs = <<>>
    /\ result = <<"running">>
    /\ returned = <<>>
    /\ executed = <<>>
    /\ vm_state = VMStateDefault

ProofIdle ==
    /\ proof_cache = <<>>
    /\ cache_cap = DefaultCacheSize
    /\ issued = {}
    /\ nonce = 0
    /\ last_call = [op |-> "none"]

ZkIdle == zkvm_circuit = VMCircuitNew(DefaultMaxSteps) /\ synth = <<"none">>

ArithIdle == arith = [op |-> "none"]

PeerIdle ==
    /\ peers = <<>>
    /\ banned_peers = {}
    /\ max_peers = 1
    /\ peer_call = [op |-> "none"]
    /\ updates = 0

\* StateSync::new(10) in the tests
TestBatchSize == 10

SyncIdle ==
    /\ sync_state = SyncStateNew(0)
    /\ batch_size = TestBatchSize
    /\ now = 0
    /\ sync_call = [op |-> "none", n |-> 0, at |-> 0]

\* ConsensusState::new
ConsensusStateNew ==
    [validators |-> <<>>,
     pending_blocks |-> <<>>,
     finalized_blocks |-> <<>>,
     votes |-> <<>>,
     last_finalized_time |-> 0]

ConsensusIdle ==
    /\ consensus = ConsensusStateNew
    /\ cons_call = [op |-> "none", n |-> 0]

\* MemoryManager::new(config): nothing allocated, no lock held
MemoryManagerNew(page_size, gc_threshold, cache_size) ==
    [page_table |-> [pages |-> <<>>, free_pages |-> <<>>, page_size |-> page_size,
                     next_page_id |-> 0],
     segments |-> <<>>,
     permissions |-> <<>>,
     gc |-> [threshold |-> gc_threshold, collections |-> 0, freed_segments |-> 0,
             freed_pages |-> 0],
     cache |-> [capacity |-> cache_size, cache |-> <<>>, lru |-> <<>>],
     stats |-> [total_allocations |-> 0, total_deallocations |-> 0, cache_hits |-> 0,
                cache_misses |-> 0],
     write_locked |-> FALSE]

\* MemoryConfig of the debugger (src/src/debug/mod.rs)
DebugPageSize == 4096
DebugGcThreshold == 1048576
DebugCacheSize == 1000

MemoryIdle ==
    /\ mm = MemoryManagerNew(DebugPageSize, DebugGcThreshold, DebugCacheSize)
    /\ mm_call = [op |-> "none", n |-> 0, reads |-> {}]

\* GarbageCollector::new(threshold)
GarbageCollectorNew(threshold) ==
    [threshold |-> threshold, marked |-> {}, collections |-> 0, freed_segments |-> 0,
     freed_pages |-> 0]

GcIdle ==
    /\ segments = <<>>
    /\ gc = GarbageCollectorNew(DebugGcThreshold)
    /\ gc_call = [op |-> "none"]

RestIdle == ConsensusIdle /\ MemoryIdle /\ GcIdle

TypeOK ==
    /\ program \in Programs
    /\ pc \in 0..Len(program)
    /\ gas \in 0..GasLimit
    /\ result[1] \in {"running", "Ok", "Err", "panic"}

Init ==
    /\ program \in Programs
    /\ stack = <<>>
    /\ memory = <<>>
    /\ storage = <<>>
    /\ pc = 0
    /\ gas = GasLimit
    /\ call_stack = <<>>
    /\ state_root = ZeroRoot
    /\ logs = <<>>
    /\ result = <<"running">>
    /\ returned = <<>>
    /\ executed = <<>>
    /\ vm_state = VMStateDefault
    /\ proof_cache = <<>>
    /\ cache_cap = DefaultCacheSize
    /\ issued = {}
    /\ nonce = 0
    /\ last_call = [op |-> "none"]
    /\ ZkIdle /\ ArithIdle /\ PeerIdle /\ SyncIdle /\ RestIdle

\* PUSH without the capacity test
PushUnchecked ==
    /\ Running /\ Opcode = 1
    /\ LET u == UseGas(gas, GasCostOf(1))
       IN IF ~u.ok THEN GasFail
          ELSE IF pc + 1 >= Len(program) THEN Fail(stack, u.gas, IndexPanic)
          ELSE Commit(Append(stack, IntV(program[pc + 2])), memory, pc + 2, u.gas,
                      call_stack, result)

\* 0x01 PUSH
Push ==
    /\ Running /\ Opcode = 1
    /\ LET u == UseGas(gas, GasCostOf(1))
       IN IF ~u.ok THEN GasFail
          ELSE IF pc + 1 >= Len(program) THEN Fail(stack, u.gas, IndexPanic)
          ELSE IF Len(stack) >= StackLimit THEN Fail(stack, u.gas, <<"Err", "StackOverflow">>)
          ELSE Commit(Append(stack, IntV(program[pc + 2])), memory, pc + 2, u.gas,
                      call_stack, result)

\* `a + b` and `a * b` on i64; the operands of the model's programs stay far below 2^63
I64Add(a, b) == a + b
I64Mul(a, b) == a * b

\* ADD on the operands' low bytes: the sum wraps at 256
AddWrapping8 ==
    /\ Running /\ Opcode = 2
    /\ LET u == UseGas(gas, GasCostOf(2))
           b == Pop(stack)
           a == Pop(b.rest)
       IN IF ~u.ok THEN GasFail
          ELSE IF ~IsInt(b.value) THEN Fail(b.rest, u.gas, Underflow)
          ELSE IF ~IsInt(a.value) THEN Fail(a.rest, u.gas, Underflow)
          ELSE Commit(Append(a.rest, IntV((a.value.v + b.value.v) % 256)), memory, pc + 1,
                      u.gas, call_stack, result)

\* 0x02 ADD
Add ==
    /\ Running /\ Opcode = 2
    /\ LET u == UseGas(gas, GasCostOf(2))
           b == Pop(stack)
           a == Pop(b.rest)
       IN IF ~u.ok THEN GasFail
          ELSE IF ~IsInt(b.value) THEN Fail(b.rest, u.gas, Underflow)
          ELSE IF ~IsInt(a.value) THEN Fail(a.rest, u.gas, Underflow)
          ELSE Commit(Append(a.rest, IntV(I64Add(a.value.v, b.value.v))), memory, pc + 1,
                      u.gas, call_stack, result)

\* 0x03 MUL
Mul ==
    /\ Running /\ Opcode = 3
    /\ LET u == UseGas(gas, GasCostOf(3))
           b == Pop(stack)
           a == Pop(b.rest)
       IN IF ~u.ok THEN GasFail
          ELSE IF ~IsInt(b.value) THEN Fail(b.rest, u.gas, Underflow)
          ELSE IF ~IsInt(a.value) THEN Fail(a.rest, u.gas, Underflow)
          ELSE Commit(Append(a.rest, IntV(I64Mul(a.value.v, b.value.v))), memory, pc + 1,
                      u.gas, call_stack, result)

\* STORE writing the storage map in place of the memory
StoreToStorage ==
    /\ Running /\ Opcode = 4
    /\ LET u == UseGas(gas, GasCostOf(4))
           addr == Pop(stack)
           value == Pop(addr.rest)
       IN IF ~u.ok THEN GasFail
          ELSE IF ~IsInt(addr.value) THEN Fail(addr.rest, u.gas, Underflow)
          ELSE IF value.value = None THEN Fail(value.rest, u.gas, Underflow)
          ELSE /\ stack' = value.rest
               /\ storage' = Append(storage, [key |-> AsU64(addr.value.v),
                                              value |-> value.value])
               /\ pc' = pc + 1
               /\ gas' = u.gas
               /\ executed' = Append(executed, [opcode |-> 4, gas_cost |-> gas - u.gas])
               /\ UNCHANGED <<program, memory, call_stack, result, logs, state_root,
                              returned, vm_state>>
               /\ UNCHANGED <<proofVars, zkVars, otherVars>>

\* 0x04 STORE
Store ==
    /\ Running /\ Opcode = 4
    /\ LET u == UseGas(gas, GasCostOf(4))
           addr == Pop(stack)
           value == Pop(addr.rest)
       IN IF ~u.ok THEN GasFail
          ELSE IF ~IsInt(addr.value) THEN Fail(addr.rest, u.gas, Underflow)
          ELSE IF value.value = None THEN Fail(value.rest, u.gas, Underflow)
          ELSE Commit(value.rest, MapInsert(memory, AsU64(addr.value.v), value.value),
                      pc + 1, u.gas, call_stack, result)

\* 0x05 LOAD
Load ==
    /\ Running /\ Opcode = 5
    /\ LET u == UseGas(gas, GasCostOf(5))
           addr == Pop(stack)
       IN IF ~u.ok THEN GasFail
          ELSE IF ~IsInt(addr.value) THEN Fail(addr.rest, u.gas, Underflow)
          ELSE IF AsU64(addr.value.v) \notin DOMAIN memory
               THEN Fail(addr.rest, u.gas, <<"Err", "MemoryError", AsU64(addr.value.v)>>)
          ELSE Commit(Append(addr.rest, memory[AsU64(addr.value.v)]), memory, pc + 1, u.gas,
                      call_stack, result)

\* CREATE advancing the program counter by code_size only
CreateNoAdvance ==
    /\ Running /\ Opcode = 11
    /\ LET u == UseGas(gas, GasCostOf(11))
           value == Pop(stack)
           code_size == Pop(value.rest)
           u2 == UseGas(u.gas, ContractCreationGas)
       IN IF ~u.ok THEN GasFail
          ELSE IF ~IsInt(value.value) THEN Fail(value.rest, u.gas, Underflow)
          ELSE IF ~IsInt(code_size.value) THEN Fail(code_size.rest, u.gas, Underflow)
          ELSE IF ~u2.ok THEN Fail(code_size.rest, u2.gas, <<"Err", "GasLimitExceeded">>)
          ELSE LET size == AsU64(code_size.value.v)
                   from == pc + 1
               IN IF ~SliceOk(from, from + size) THEN Fail(code_size.rest, u2.gas, IndexPanic)
                  ELSE LET code == Slice(from, from + size)
                           contract == ContractData(code, AsU64(value.value.v))
                       IN Commit(code_size.rest \o <<Address(Blake2b32(code)), Contract(contract)>>,
                                 memory, pc + size, u2.gas, call_stack, result)

\* 0x0B CREATE
Create ==
    /\ Running /\ Opcode = 11
    /\ LET u == UseGas(gas, GasCostOf(11))
           value == Pop(stack)
           code_size == Pop(value.rest)
           u2 == UseGas(u.gas, ContractCreationGas)
       IN IF ~u.ok THEN GasFail
          ELSE IF ~IsInt(value.value) THEN Fail(value.rest, u.gas, Underflow)
          ELSE IF ~IsInt(code_size.value) THEN Fail(code_size.rest, u.gas, Underflow)
          ELSE IF ~u2.ok THEN Fail(code_size.rest, u2.gas, <<"Err", "GasLimitExceeded">>)
          ELSE LET size == AsU64(code_size.value.v)
                   from == pc + 1
               IN IF ~SliceOk(from, from + size) THEN Fail(code_size.rest, u2.gas, IndexPanic)
                  ELSE LET code == Slice(from, from + size)
                           contract == ContractData(code, AsU64(value.value.v))
                       IN Commit(code_size.rest \o <<Address(Blake2b32(code)), Contract(contract)>>,
                                 memory, pc + 1 + size, u2.gas, call_stack, result)

\* 0x0C CALL
Call ==
    /\ Running /\ Opcode = 12
    /\ LET u == UseGas(gas, GasCostOf(12))
           address == Pop(stack)
           value == Pop(address.rest)
           gas_limit == Pop(value.rest)
       IN IF ~u.ok THEN GasFail
          ELSE IF ~IsAddress(address.value) THEN Fail(address.rest, u.gas, Underflow)
          ELSE IF ~IsInt(value.value) THEN Fail(value.rest, u.gas, Underflow)
          ELSE IF ~IsInt(gas_limit.value) THEN Fail(gas_limit.rest, u.gas, Underflow)
          ELSE LET slot == FirstByte(address.value.a)
               IN IF ~(slot \in DOMAIN memory /\ IsContract(memory[slot]))
                  THEN Fail(gas_limit.rest, u.gas, <<"Err", "ExecutionError", "Contract not found">>)
                  ELSE Commit(gas_limit.rest, memory, pc + 1, u.gas,
                              Append(call_stack,
                                     [caller |-> "zero", address |-> address.value.a,
                                      value |-> AsU64(value.value.v),
                                      gas_limit |-> AsU64(gas_limit.value.v),
                                      code |-> memory[slot].c.code, return_data |-> <<>>]),
                              result)

\* 0x0D RETURN
Return ==
    /\ Running /\ Opcode = 13
    /\ LET u == UseGas(gas, GasCostOf(13))
           size == Pop(stack)
           offset == Pop(size.rest)
       IN IF ~u.ok THEN GasFail
          ELSE IF ~IsInt(size.value) THEN Fail(size.rest, u.gas, Underflow)
          ELSE IF ~IsInt(offset.value) THEN Fail(offset.rest, u.gas, Underflow)
          ELSE LET from == AsU64(offset.value.v)
                   to == from + AsU64(size.value.v)
                   n == Len(call_stack)
               IN IF n = 0 THEN Commit(offset.rest, memory, pc + 1, u.gas, call_stack, result)
                  ELSE IF ~SliceOk(from, to) THEN Fail(offset.rest, u.gas, IndexPanic)
                  ELSE Commit(offset.rest, memory, pc + 1, u.gas,
                              [call_stack EXCEPT ![n].return_data = Slice(from, to)], result)

\* 0x0E SHA3
Sha3 ==
    /\ Running /\ Opcode = 14
    /\ LET u == UseGas(gas, GasCostOf(14))
           size == Pop(stack)
           offset == Pop(size.rest)
       IN IF ~u.ok THEN GasFail
          ELSE IF ~IsInt(size.value) THEN Fail(size.rest, u.gas, Underflow)
          ELSE IF ~IsInt(offset.value) THEN Fail(offset.rest, u.gas, Underflow)
          ELSE LET from == AsU64(offset.value.v)
                   to == from + AsU64(size.value.v)
               IN IF ~SliceOk(from, to) THEN Fail(offset.rest, u.gas, IndexPanic)
                  ELSE Commit(Append(offset.rest, Bytes(Blake2b32(Slice(from, to)))), memory,
                              pc + 1, u.gas, call_stack, result)

\* 0x0F BALANCE
Balance ==
    /\ Running /\ Opcode = 15
    /\ LET u == UseGas(gas, GasCostOf(15))
           address == Pop(stack)
       IN IF ~u.ok THEN GasFail
          ELSE IF ~IsAddress(address.value) THEN Fail(address.rest, u.gas, Underflow)
          ELSE LET slot == FirstByte(address.value.a)
               IN IF ~(slot \in DOMAIN memory /\ IsContract(memory[slot]))
                  THEN Fail(address.rest, u.gas, <<"Err", "ExecutionError", "Contract not found">>)
                  ELSE Commit(Append(address.rest, IntV(AsI64(memory[slot].c.balance))), memory,
                              pc + 1, u.gas, call_stack, result)

\* The loop is left (STOP's break, or pc at the end): compute_state_root, Ok(());
\* then ZKVM::execute copies get_gas_remaining() and the root into its state and
\* pushes one ExecutionStep.
Finish(g, ex) ==
    /\ stack' = stack /\ memory' = memory /\ pc' = pc /\ call_stack' = call_stack
    /\ gas' = g
    /\ state_root' = ComputeStateRoot(storage, logs)
    /\ result' = <<"Ok">>
    /\ executed' = ex
    /\ vm_state' = [gas_used |-> g,
                    state_root |-> ComputeStateRoot(storage, logs),
                    execution_trace |-> Append(vm_state.execution_trace,
                                               ExecutionStep(0, stack, memory, 0))]
    /\ UNCHANGED <<program, storage, logs, returned>>
    /\ UNCHANGED <<proofVars, zkVars, otherVars>>

\* 0xFF STOP
Stop ==
    /\ Running /\ Opcode = 255
    /\ LET u == UseGas(gas, GasCostOf(255))
       IN IF ~u.ok THEN GasFail
          ELSE Finish(u.gas, Append(executed, [opcode |-> 255, gas_cost |-> gas - u.gas]))

\* the opcodes the match gives an arm
Implemented == {1, 2, 3, 4, 5, 11, 12, 13, 14, 15, 255}

\* `_ => return Err(VMError::InvalidOpcode(opcode))`
Invalid ==
    /\ Running /\ Opcode \notin Implemented
    /\ LET u == UseGas(gas, GasCostOf(Opcode))
       IN IF ~u.ok THEN GasFail ELSE Fail(stack, u.gas, <<"Err", "InvalidOpcode", Opcode>>)

\* `while context.program_counter < self.program.len()` is false
EndOfProgram ==
    /\ result = <<"running">> /\ pc >= Len(program)
    /\ Finish(gas, executed)

\* execute is called again on the same VM, after it returned Ok: the context is as
\* the earlier call left it.
Execute ==
    /\ result = <<"Ok">>
    /\ Len(returned) + 1 < MaxCalls
    /\ returned' = Append(returned, result)
    /\ result' = <<"running">>
    /\ UNCHANGED <<program, stack, memory, storage, pc, gas, call_stack, state_root, logs,
                   executed, vm_state>>
    /\ UNCHANGED <<proofVars, zkVars, otherVars>>

---------------------------------------------------------------------------
(* compute_state_root over every storage map and layout *)

Keys == 0..MaxKey

\* Values held in storage.
StorageValues == {IntV(7), Bool(TRUE)}

\* Log
Log(address, topics, data) == [address |-> address, topics |-> topics, data |-> data]

LogLists == {<<>>, <<Log(1, <<2>>, <<3>>)>>}

\* A HashMap<[u8; 32], Value> as iter yields it: each key once, in an order that
\* depends on the insertions made and on the hasher, not on the keys.
StorageLayouts ==
    UNION {{s \in [1..n -> [key : Keys, value : StorageValues]] :
                \A i, j \in 1..n : s[i].key = s[j].key => i = j} : n \in 0..(MaxKey + 1)}

\* A context with storage and logs filled, about to run the empty program.
RootInit ==
    /\ program = <<>>
    /\ stack = <<>>
    /\ memory = <<>>
    /\ storage \in StorageLayouts
    /\ pc = 0
    /\ gas = GasLimit
    /\ call_stack = <<>>
    /\ state_root = ZeroRoot
    /\ logs \in LogLists
    /\ result = <<"running">>
    /\ returned = <<>>
    /\ executed = <<>>
    /\ vm_state = VMStateDefault
    /\ proof_cache = <<>>
    /\ cache_cap = 1
    /\ issued = {}
    /\ nonce = 0
    /\ last_call = [op |-> "none"]
    /\ ZkIdle /\ ArithIdle /\ PeerIdle /\ SyncIdle /\ RestIdle

RootNext == EndOfProgram

RootSpec == RootInit /\ [][RootNext]_vars

---------------------------------------------------------------------------
(* The proof system *)

\* The circuit allocates every variable with cs.alloc and none with alloc_input:
\* the verifying key expects no public input.
NumPublicInputs == 0

\* Field elements used as public inputs by callers of verify.
FieldElems == {1}

\* A circuit handed to prove: without a witness (VMCircuit::new), or with one
\* (VMCircuit::with_witness) that satisfies the constraints or does not.
Circuits ==
    {[witness |-> FALSE, satisfied |-> FALSE],
     [witness |-> TRUE, satisfied |-> FALSE],
     [witness |-> TRUE, satisfied |-> TRUE]}

\* groth16::create_random_proof: fails on a missing assignment; otherwise a proof,
\* randomized by r, that verifies exactly if the witness satisfies the circuit.
CreateRandomProof(circuit, r) ==
    IF ~circuit.witness THEN <<"Err", "AssignmentMissing">>
    ELSE <<"Ok", [valid |-> circuit.satisfied, r |-> r]>>

\* groth16::verify_proof: an error unless the number of inputs is the one the key
\* expects; otherwise whether the proof is valid.
VerifyProof(proof, public_inputs) ==
    IF Len(public_inputs) # NumPublicInputs THEN <<"Err", "MalformedVerifyingKey">>
    ELSE <<"Ok", proof.valid>>

\* ProofSystem::collect_public_inputs
CollectPublicInputs(proof) == <<>>

\* ProofSystem::hash_proof: Blake2s256 over the proof and the inputs, as an ideal digest
HashProof(proof, public_inputs) == [blake2s |-> <<proof, public_inputs>>]

\* ProofData::new
ProofData(proof, public_inputs, hash) ==
    [proof |-> proof, public_inputs |-> public_inputs, hash |-> hash]

\* The position of key k in the cache, 0 if it is absent.
CacheIndex(cache, k) ==
    IF \E i \in 1..Len(cache) : cache[i].key = k
    THEN CHOOSE i \in 1..Len(cache) : cache[i].key = k
    ELSE 0

\* The cache without its entry at position i.
CacheRemove(cache, i) == SubSeq(cache, 1, i - 1) \o SubSeq(cache, i + 1, Len(cache))

\* a lookup that leaves the recency order alone
LruPeek(cache, k) == cache

\* LruCache::get: the entry of k becomes the most recently used one.
LruGet(cache, k) ==
    LET i == CacheIndex(cache, k)
    IN IF i = 0 THEN cache ELSE <<cache[i]>> \o CacheRemove(cache, i)

\* LruCache::put: replaces the entry of k, or inserts one, evicting the least
\* recently used entry of a full cache.
LruPut(cache, cap, k, v) ==
    LET i == CacheIndex(cache, k)
        e == [key |-> k, value |-> v]
    IN IF i # 0 THEN <<e>> \o CacheRemove(cache, i)
       ELSE IF Len(cache) >= cap THEN <<e>> \o SubSeq(cache, 1, cap - 1)
       ELSE <<e>> \o cache

\* The cache holds, under pd.hash, the proof pd.proof.
CacheHit(cache, pd) ==
    LET i == CacheIndex(cache, pd.hash)
    IN i # 0 /\ cache[i].value = pd.proof

\* verify hashing the public inputs before the proof
VerifyHashOrder(cache, pd) ==
    LET v == VerifyProof(pd.proof, pd.public_inputs)
        hash_valid == [blake2s |-> <<pd.public_inputs, pd.proof>>] = pd.hash
    IN IF CacheHit(cache, pd) THEN <<"Ok", TRUE>>
       ELSE IF v[1] = "Err" THEN v
       ELSE <<"Ok", v[2] /\ hash_valid>>

\* verify going to the SNARK verification and the hash check without the cache lookup
VerifyNoCache(cache, pd) ==
    LET v == VerifyProof(pd.proof, pd.public_inputs)
        hash_valid == HashProof(pd.proof, pd.public_inputs) = pd.hash
    IN IF v[1] = "Err" THEN v
       ELSE <<"Ok", v[2] /\ hash_valid>>

\* ProofSystem::verify, its result
Verify(cache, pd) ==
    LET v == VerifyProof(pd.proof, pd.public_inputs)
        hash_valid == HashProof(pd.proof, pd.public_inputs) = pd.hash
    IN IF CacheHit(cache, pd) THEN <<"Ok", TRUE>>
       ELSE IF v[1] = "Err" THEN v
       ELSE <<"Ok", v[2] /\ hash_valid>>

\* ProofSystem::batch_verify, the closure run on one element
BatchVerifyOne(cache, pd) ==
    LET v == VerifyProof(pd.proof, pd.public_inputs)
    IN IF CacheIndex(cache, pd.hash) # 0 THEN cache[CacheIndex(cache, pd.hash)].value = pd.proof
       ELSE IF v[1] = "Err" THEN FALSE
       ELSE v[2]

\* ProofSystem::batch_verify, its result
BatchVerify(cache, pds) == <<"Ok", \A i \in 1..Len(pds) : BatchVerifyOne(cache, pds[i])>>

\* Proofs a caller can hand to verify without having them from prove.
ForgedProofs == {[valid |-> FALSE, r |-> 0], [valid |-> TRUE, r |-> 0]}

\* What a caller can make of pd: pd itself, its proof replaced, its public inputs
\* replaced, its hash replaced by the hash of another ProofData.
Tampered(pd, others) ==
    {pd}
    \cup {[pd EXCEPT !.proof = p] : p \in ForgedProofs}
    \cup {[pd EXCEPT !.public_inputs = <<x>>] : x \in FieldElems}
    \cup {[pd EXCEPT !.hash = q.hash] : q \in others}

\* ProofData a caller builds from scratch around a forged proof.
Forged == {ProofData(p, <<>>, HashProof(p, <<>>)) : p \in ForgedProofs}

\* The ProofData values verify is called with.
Candidates == UNION {Tampered(pd, issued \cup Forged) : pd \in issued \cup Forged}

\* The ProofData values batch_verify is given lists of: what prove returned, the
\* forged ones, and a valid proof under the hash of another.
BatchCandidates ==
    issued \cup Forged
    \cup {[pd EXCEPT !.hash = q.hash] : pd \in {x \in Forged : x.proof.valid},
                                         q \in {x \in Forged : ~x.proof.valid}}

\* Lists of at most n of them.
Batches(n) == UNION {[1..k -> BatchCandidates] : k \in 0..n}

ProofInit ==
    /\ program = <<>>
    /\ stack = <<>>
    /\ memory = <<>>
    /\ storage = <<>>
    /\ pc = 0
    /\ gas = GasLimit
    /\ call_stack = <<>>
    /\ state_root = ZeroRoot
    /\ logs = <<>>
    /\ result = <<"running">>
    /\ returned = <<>>
    /\ executed = <<>>
    /\ vm_state = VMStateDefault
    /\ proof_cache = <<>>
    /\ cache_cap \in (1..MaxCap) \cup {DefaultCacheSize}
    /\ issued = {}
    /\ nonce = 0
    /\ last_call = [op |-> "none"]
    /\ ZkIdle /\ ArithIdle /\ PeerIdle /\ SyncIdle /\ RestIdle

\* prove making room in the cache before it creates the proof
ProveEvictsFirst ==
    \E circuit \in Circuits :
        /\ nonce < MaxProofs
        /\ LET created == CreateRandomProof(circuit, nonce + 1)
               room == IF Len(proof_cache) >= cache_cap
                       THEN SubSeq(proof_cache, 1, cache_cap - 1) ELSE proof_cache
           IN IF created[1] = "Err"
              THEN /\ last_call' = [op |-> "prove", circuit |-> circuit, before |-> proof_cache,
                                    result |-> created]
                   /\ proof_cache' = room
                   /\ UNCHANGED <<issued, nonce>>
              ELSE LET proof == created[2]
                       public_inputs == CollectPublicInputs(proof)
                       proof_hash == HashProof(proof, public_inputs)
                       pd == ProofData(proof, public_inputs, proof_hash)
                   IN /\ proof_cache' = <<[key |-> proof_hash, value |-> proof]>> \o room
                      /\ issued' = issued \cup {pd}
                      /\ nonce' = nonce + 1
                      /\ last_call' = [op |-> "prove", circuit |-> circuit,
                                       before |-> proof_cache, result |-> <<"Ok", pd>>]
        /\ UNCHANGED cache_cap
        /\ UNCHANGED <<vmVars, zkVars, otherVars>>

\* ProofSystem::prove
Prove ==
    \E circuit \in Circuits :
        /\ nonce < MaxProofs
        /\ LET created == CreateRandomProof(circuit, nonce + 1)
           IN IF created[1] = "Err"
              THEN /\ last_call' = [op |-> "prove", circuit |-> circuit, before |-> proof_cache,
                                    result |-> created]
                   /\ UNCHANGED <<proof_cache, issued, nonce>>
              ELSE LET proof == created[2]
                       public_inputs == CollectPublicInputs(proof)
                       proof_hash == HashProof(proof, public_inputs)
                       pd == ProofData(proof, public_inputs, proof_hash)
                   IN /\ proof_cache' = LruPut(proof_cache, cache_cap, proof_hash, proof)
                      /\ issued' = issued \cup {pd}
                      /\ nonce' = nonce + 1
                      /\ last_call' = [op |-> "prove", circuit |-> circuit,
                                       before |-> proof_cache, result |-> <<"Ok", pd>>]
        /\ UNCHANGED cache_cap
        /\ UNCHANGED <<vmVars, zkVars, otherVars>>

\* ProofSystem::verify
VerifyCall ==
    \E pd \in Candidates :
        /\ proof_cache' = LruGet(proof_cache, pd.hash)
        /\ last_call' = [op |-> "verify", pd |-> pd, result |-> Verify(proof_cache, pd)]
        /\ UNCHANGED <<cache_cap, issued, nonce>>
        /\ UNCHANGED <<vmVars, zkVars, otherVars>>

RECURSIVE GetAll(_, _)
\* The cache after get has been called for the hashes of pds, in this order.
GetAll(cache, pds) ==
    IF pds = <<>> THEN cache ELSE GetAll(LruGet(cache, Head(pds).hash), Tail(pds))

\* ProofSystem::batch_verify. The parallel closures reach the cache in an order of
\* their own; the lists come in every order, and the gets are made in list order.
\* last_call keeps, beside the result, what verify returns for each element.
BatchVerifyCall ==
    \E pds \in Batches(MaxBatch) :
        /\ proof_cache' = GetAll(proof_cache, pds)
        /\ last_call' = [op |-> "batch_verify",
                         verify_each |-> [i \in 1..Len(pds) |-> Verify(proof_cache, pds[i])],
                         result |-> BatchVerify(proof_cache, pds)]
        /\ UNCHANGED <<cache_cap, issued, nonce>>
        /\ UNCHANGED <<vmVars, zkVars, otherVars>>

ProofNext == Prove \/ VerifyCall \/ BatchVerifyCall

ProofSpec == ProofInit /\ [][ProofNext]_vars

---------------------------------------------------------------------------
(* The circuit (src/src/circuit.rs) and ZKVM::generate_proof *)

\* circuit.rs VMState<F>. A field element is written as the integer it reduces; the
\* values of the model stay far below the modulus, so + and * are the integers'.
FieldState(st, m, sto, p, g) ==
    [stack |-> st, memory |-> m, storage |-> sto, program_counter |-> p, gas_remaining |-> g]

\* VMCircuit::with_witness
WithWitness(max_steps, initial_state, final_state) ==
    [initial_state |-> initial_state, final_state |-> final_state, max_steps |-> max_steps]

\* to_repr().as_ref()[0]: the low byte of the little-endian representation
LowByte(x) == x % 256

RECURSIVE SliceCode(_)
\* The memory slice SHA3 hashes, as one number.
SliceCode(s) == IF s = <<>> THEN 0 ELSE 1 + LowByte(Head(s)) + 257 * SliceCode(Tail(s))

\* F::from_repr of the first 32 bytes of the Blake2b digest, as an ideal digest:
\* an element that no witness value of the model equals.
Blake2bElem(s) == 0 - 1 - SliceCode(s)

\* cs.enforce(a * b = c) on the assignment of the prover: sat stays TRUE while every
\* constraint enforced so far holds.
Enforce(cur, a, b, c) == [cur EXCEPT !.sat = cur.sat /\ (a * b = c)]

\* A step whose arm is chosen by the opcode the program counter points at.
CircuitStepAtPc(p, init, fin, cur, step) ==
    LET op == p[LowByte(init.program_counter) + 1]
        n == Len(cur.stack)
        ni == Len(init.stack)
        rest == SubSeq(cur.stack, 1, n - 2)
    IN CASE op = 1 ->
              IF step + 1 >= Len(p) THEN [cur EXCEPT !.out = IndexPanic]
              ELSE Enforce([cur EXCEPT !.stack = Append(cur.stack, p[step + 2])],
                           init.program_counter, 1, fin.program_counter)
         [] op \in {2, 3} ->
              IF n < 2 THEN cur
              ELSE IF ni < 2 THEN [cur EXCEPT !.out = IndexPanic]
              ELSE LET a == cur.stack[n]
                       b == cur.stack[n - 1]
                       r == IF op = 2 THEN init.stack[ni] + init.stack[ni - 1]
                            ELSE init.stack[ni] * init.stack[ni - 1]
                   IN Enforce([cur EXCEPT !.stack = Append(rest, r)], a, b, r)
         [] op = 4 ->
              IF n < 2 THEN cur
              ELSE LET value == cur.stack[n]
                       addr == cur.stack[n - 1]
                       extended == [i \in 1..(IF Len(cur.memory) <= step THEN step + 1
                                               ELSE Len(cur.memory)) |->
                                      IF i <= Len(cur.memory) THEN cur.memory[i] ELSE 0]
                   IN Enforce([cur EXCEPT !.stack = rest,
                                          !.memory = [extended EXCEPT ![step + 1] = value]],
                              addr, 1, value)
         [] op = 14 ->
              IF n < 2 THEN cur
              ELSE IF ni < 2 THEN [cur EXCEPT !.out = IndexPanic]
              ELSE LET from == LowByte(init.stack[ni - 1])
                       to == LowByte(init.stack[ni - 1] + init.stack[ni])
                   IN IF ~(from <= to /\ to <= Len(init.memory))
                      THEN [cur EXCEPT !.out = IndexPanic]
                      ELSE [cur EXCEPT !.stack =
                              Append(rest, Blake2bElem(SubSeq(init.memory, from + 1, to)))]
         [] OTHER -> cur

\* The arm of `match self.program.get(step)`. cur is current_state with the values
\* assigned to its variables; the result closures read the top of the *initial*
\* stack, and the constraint of ADD is the product one of MUL.
CircuitStep(p, init, fin, cur, step) ==
    LET op == p[step + 1]
        n == Len(cur.stack)
        ni == Len(init.stack)
        rest == SubSeq(cur.stack, 1, n - 2)
    IN CASE op = 1 ->
              IF step + 1 >= Len(p) THEN [cur EXCEPT !.out = IndexPanic]
              ELSE Enforce([cur EXCEPT !.stack = Append(cur.stack, p[step + 2])],
                           init.program_counter, 1, fin.program_counter)
         [] op \in {2, 3} ->
              IF n < 2 THEN cur
              ELSE IF ni < 2 THEN [cur EXCEPT !.out = IndexPanic]
              ELSE LET a == cur.stack[n]
                       b == cur.stack[n - 1]
                       r == IF op = 2 THEN init.stack[ni] + init.stack[ni - 1]
                            ELSE init.stack[ni] * init.stack[ni - 1]
                   IN Enforce([cur EXCEPT !.stack = Append(rest, r)], a, b, r)
         [] op = 4 ->
              IF n < 2 THEN cur
              ELSE LET value == cur.stack[n]
                       addr == cur.stack[n - 1]
                       extended == [i \in 1..(IF Len(cur.memory) <= step THEN step + 1
                                               ELSE Len(cur.memory)) |->
                                      IF i <= Len(cur.memory) THEN cur.memory[i] ELSE 0]
                   IN Enforce([cur EXCEPT !.stack = rest,
                                          !.memory = [extended EXCEPT ![step + 1] = value]],
                              addr, 1, value)
         [] op = 14 ->
              IF n < 2 THEN cur
              ELSE IF ni < 2 THEN [cur EXCEPT !.out = IndexPanic]
              ELSE LET from == LowByte(init.stack[ni - 1])
                       to == LowByte(init.stack[ni - 1] + init.stack[ni])
                   IN IF ~(from <= to /\ to <= Len(init.memory))
                      THEN [cur EXCEPT !.out = IndexPanic]
                      ELSE [cur EXCEPT !.stack =
                              Append(rest, Blake2bElem(SubSeq(init.memory, from + 1, to)))]
         [] OTHER -> cur

RECURSIVE RunSteps(_, _, _, _, _, _)
\* `for step in 0..self.max_steps`, up to the step `last`: past the end of the
\* program get(step) is None and a step adds no constraint.
RunSteps(p, init, fin, cur, step, last) ==
    IF step >= last \/ cur.out[1] # "Ok" THEN cur
    ELSE RunSteps(p, init, fin, CircuitStep(p, init, fin, cur, step), step + 1, last)

\* The pairs of `a.iter().zip(b.iter())` are equal: zip stops at the shorter one.
ZipEq(a, b) == \A i \in 1..(IF Len(a) <= Len(b) THEN Len(a) ELSE Len(b)) : a[i] = b[i]

\* VMCircuit::synthesize on the prover's constraint system, which evaluates the
\* closure of every alloc: <<"Err", "AssignmentMissing">>, a panic, or <<"Ok", sat>>
\* with sat telling whether the assignment satisfies every constraint enforced.
Synthesize(p, c) ==
    IF c.initial_state = None \/ c.final_state = None THEN <<"Err", "AssignmentMissing">>
    ELSE LET init == c.initial_state
             fin == c.final_state
             last == IF c.max_steps <= Len(p) THEN c.max_steps ELSE Len(p)
             cur == RunSteps(p, init, fin,
                             [stack |-> init.stack, memory |-> init.memory,
                              sat |-> TRUE, out |-> <<"Ok">>], 0, last)
         IN IF c.max_steps >= 1 /\ LowByte(init.program_counter) >= Len(p)
            THEN <<"Err", "AssignmentMissing">>
            ELSE IF cur.out[1] # "Ok" THEN cur.out
            ELSE <<"Ok", /\ cur.sat
                         /\ init.program_counter = fin.program_counter
                         /\ init.gas_remaining = fin.gas_remaining
                         /\ ZipEq(cur.stack, fin.stack)
                         /\ ZipEq(cur.memory, fin.memory)
                         /\ ZipEq(init.storage, fin.storage)>>

\* ZKVM::generate_proof: takes the circuit out of the ZKVM and hands it to
\* ProofSystem::prove.
GenerateProof ==
    /\ result = <<"Ok">>
    /\ IF zkvm_circuit = None
       THEN /\ last_call' = [op |-> "generate_proof",
                             result |-> <<"Err", "StateError", "Circuit already consumed">>]
            /\ UNCHANGED <<proof_cache, issued, nonce, zkVars>>
       ELSE LET s == Synthesize(program, zkvm_circuit)
            IN /\ zkvm_circuit' = None
               /\ synth' = s
               /\ IF s[1] = "Ok"
                  THEN LET proof == CreateRandomProof([witness |-> TRUE, satisfied |-> s[2]],
                                                      nonce + 1)[2]
                           public_inputs == CollectPublicInputs(proof)
                           proof_hash == HashProof(proof, public_inputs)
                           pd == ProofData(proof, public_inputs, proof_hash)
                       IN /\ proof_cache' = LruPut(proof_cache, cache_cap, proof_hash, proof)
                          /\ issued' = issued \cup {pd}
                          /\ nonce' = nonce + 1
                          /\ last_call' = [op |-> "generate_proof", result |-> <<"Ok", pd>>]
                  ELSE /\ last_call' = [op |-> "generate_proof",
                                        result |-> IF s[1] = "Err"
                                                   THEN <<"Err", "ProofError", s[2]>> ELSE s]
                       /\ UNCHANGED <<proof_cache, issued, nonce>>
    /\ UNCHANGED <<cache_cap, vmVars, otherVars>>

Next ==
    \/ Push \/ Add \/ Mul \/ Store \/ Load \/ Create \/ Call \/ Return \/ Sha3 \/ Balance
    \/ Stop \/ Invalid \/ EndOfProgram \/ Execute \/ GenerateProof

Spec == Init /\ [][Next]_vars

\* A stack or memory of a witness holds at most this many field elements.
MaxCells == 2

\* The programs the circuit is built for: each opcode with an arm, alone and after a
\* PUSH, and opcodes without one.
CircuitPrograms ==
    {<<255>>, <<1>>, <<2>>, <<3>>, <<4>>, <<14>>, <<1, 2>>, <<1, 255>>, <<1, 3>>, <<2, 3>>,
     <<4, 4>>, <<5, 14>>}

\* Sequences over S of at most n elements.
SeqsUpTo(S, n) == UNION {[1..k -> S] : k \in 0..n}

\* The initial states of a witness.
InitialStates ==
    {FieldState(st, m, sto, p, 1) :
        st \in SeqsUpTo({0, 2}, MaxCells), m \in {<<>>, <<0>>},
        sto \in {<<>>, <<<<0, 2>>>>}, p \in {0, 1}}

\* The final states of a witness: those a prover may claim.
FinalStates ==
    {FieldState(st, m, sto, p, 1) :
        st \in SeqsUpTo({0, 4}, MaxCells), m \in {<<>>, <<0>>},
        sto \in {<<>>, <<<<0, 2>>>>}, p \in {0, 1}}

\* max_steps of a circuit: a single step, and the ZKVM's.
StepLimits == {1, DefaultMaxSteps}

CircuitInit ==
    /\ program \in CircuitPrograms
    /\ zkvm_circuit \in
         {VMCircuitNew(ms) : ms \in StepLimits}
         \cup {WithWitness(ms, i, f) : ms \in StepLimits, i \in InitialStates, f \in FinalStates}
    /\ synth = <<"none">>
    /\ stack = <<>>
    /\ memory = <<>>
    /\ storage = <<>>
    /\ pc = 0
    /\ gas = GasLimit
    /\ call_stack = <<>>
    /\ state_root = ZeroRoot
    /\ logs = <<>>
    /\ result = <<"running">>
    /\ returned = <<>>
    /\ executed = <<>>
    /\ vm_state = VMStateDefault
    /\ ProofIdle /\ ArithIdle /\ PeerIdle /\ SyncIdle /\ RestIdle

\* The prover synthesizes the circuit.
SynthesizeCall ==
    /\ synth = <<"none">>
    /\ synth' = Synthesize(program, zkvm_circuit)
    /\ UNCHANGED <<zkvm_circuit, vmVars, proofVars, otherVars>>

CircuitNext == SynthesizeCall

CircuitSpec == CircuitInit /\ [][CircuitNext]_vars

---------------------------------------------------------------------------
(* ADD and MUL at the full width of i64 *)

\* An i64 is written as i64::to_le_bytes writes it: eight bytes, least significant
\* first, two's complement.
\* The operands: 0, 1, -1, i64::MAX, i64::MIN, 255 (the largest PUSH operand), 2^32,
\* 255^4 and 255^7 (what a program reaches by multiplying pushed bytes), and -2.
I64Samples ==
    {<<0, 0, 0, 0, 0, 0, 0, 0>>,
     <<1, 0, 0, 0, 0, 0, 0, 0>>,
     <<255, 255, 255, 255, 255, 255, 255, 255>>,
     <<255, 255, 255, 255, 255, 255, 255, 127>>,
     <<0, 0, 0, 0, 0, 0, 0, 128>>,
     <<255, 0, 0, 0, 0, 0, 0, 0>>,
     <<0, 0, 0, 0, 1, 0, 0, 0>>,
     <<1, 252, 5, 252, 0, 0, 0, 0>>,
     <<255, 6, 235, 34, 221, 20, 249, 0>>,
     <<254, 255, 255, 255, 255, 255, 255, 255>>}

\* the sign bit
IsNegative(x) == x[Len(x)] >= 128

\* i64::wrapping_add: the sum modulo 2^64
WrappingAdd(a, b) ==
    LET carry[i \in 0..8] == IF i = 0 THEN 0 ELSE (a[i] + b[i] + carry[i - 1]) \div 256
    IN [i \in 1..8 |-> (a[i] + b[i] + carry[i - 1]) % 256]

\* The true sum is outside i64: the operands have one sign and the wrapped sum the other.
AddOverflows(a, b) ==
    IsNegative(a) = IsNegative(b) /\ IsNegative(WrappingAdd(a, b)) # IsNegative(a)

\* x as an i128
SignExtend(x) == [i \in 1..16 |-> IF i <= 8 THEN x[i] ELSE IF IsNegative(x) THEN 255 ELSE 0]

\* The true product, as an i128 (the product of two i64 always fits).
WideMul(a, b) ==
    LET x == SignExtend(a)
        y == SignExtend(b)
        col[k \in 1..16] ==
            LET s[i \in 0..k] == IF i = 0 THEN 0 ELSE s[i - 1] + x[i] * y[k + 1 - i]
            IN s[k]
        carry[k \in 0..16] == IF k = 0 THEN 0 ELSE (col[k] + carry[k - 1]) \div 256
    IN [k \in 1..16 |-> (col[k] + carry[k - 1]) % 256]

\* i64::wrapping_mul: the product modulo 2^64
WrappingMul(a, b) == SubSeq(WideMul(a, b), 1, 8)

\* The true product is outside i64.
MulOverflows(a, b) == SignExtend(WrappingMul(a, b)) # WideMul(a, b)

\* `a + b` on i64 (vm.rs ADD): with overflow checks, as in a debug build, an
\* overflowing sum panics; without, as in a release build, it wraps.
I64AddOutcome(a, b, overflow_checks) ==
    IF overflow_checks /\ AddOverflows(a, b) THEN <<"panic", "attempt to add with overflow">>
    ELSE <<"Ok", WrappingAdd(a, b)>>

\* `a * b` on i64 (vm.rs MUL)
I64MulOutcome(a, b, overflow_checks) ==
    IF overflow_checks /\ MulOverflows(a, b)
    THEN <<"panic", "attempt to multiply with overflow">>
    ELSE <<"Ok", WrappingMul(a, b)>>

\* The operands on the stack and the build the program was compiled in.
ArithInit ==
    /\ arith \in [op : {"none"}, a : I64Samples, b : I64Samples, overflow_checks : BOOLEAN,
                  outcome : {<<"none">>}]
    /\ VmIdle /\ ProofIdle /\ ZkIdle /\ PeerIdle /\ SyncIdle /\ RestIdle

\* 0x02 ADD on the two operands
ArithAdd ==
    /\ arith.op = "none"
    /\ arith' = [arith EXCEPT !.op = "add",
                              !.outcome = I64AddOutcome(arith.a, arith.b, arith.overflow_checks)]
    /\ UNCHANGED <<vmVars, proofVars, zkVars, peerVars, syncVars, restVars>>

\* 0x03 MUL on the two operands
ArithMul ==
    /\ arith.op = "none"
    /\ arith' = [arith EXCEPT !.op = "mul",
                              !.outcome = I64MulOutcome(arith.a, arith.b, arith.overflow_checks)]
    /\ UNCHANGED <<vmVars, proofVars, zkVars, peerVars, syncVars, restVars>>

ArithNext == ArithAdd \/ ArithMul

ArithSpec == ArithInit /\ [][ArithNext]_vars

---------------------------------------------------------------------------
(* Peers (src/src/network/peer.rs) *)

\* PeerManager::new is given a capacity of 0..MaxPeers.
MaxPeers == 2

\* update_reputation is called at most this many times.
MaxUpdates == 2

\* The PeerIds of the peers that come and go.
PeerIds == {1, 2, 3}

I32Max == 2147483647
I32Min == 0 - 2147483647 - 1

\* The deltas update_reputation is called with.
Deltas == {50, 0 - 150, I32Max, I32Min}

\* Peer::new
PeerNew == [status |-> "Connected", reputation |-> 0]

\* i32::saturating_add, computed without leaving i32
SaturatingAdd(x, d) ==
    IF d > 0 THEN (IF x > I32Max - d THEN I32Max ELSE x + d)
    ELSE (IF x < I32Min - d THEN I32Min ELSE x + d)

\* Peer::update_reputation
UpdatedPeer(peer, delta) ==
    LET r == SaturatingAdd(peer.reputation, delta)
    IN [status |-> IF r < 0 - 100 THEN "Banned" ELSE peer.status, reputation |-> r]

\* Peer::is_banned
IsBanned(peer) == peer.status = "Banned"

\* HashMap::remove
MapRemove(m, k) == [x \in DOMAIN m \ {k} |-> m[x]]

PeerInit ==
    /\ peers = <<>>
    /\ banned_peers = {}
    /\ max_peers \in 0..MaxPeers
    /\ peer_call = [op |-> "none"]
    /\ updates = 0
    /\ VmIdle /\ ProofIdle /\ ZkIdle /\ ArithIdle /\ SyncIdle /\ RestIdle

\* add_peer without the capacity test
AddPeerUnchecked ==
    \E id \in PeerIds :
        /\ IF id \in banned_peers
           THEN /\ peer_call' = [op |-> "add_peer", result |-> <<"Err", "Peer is banned">>]
                /\ UNCHANGED peers
           ELSE /\ peers' = MapInsert(peers, id, PeerNew)
                /\ peer_call' = [op |-> "add_peer", result |-> <<"Ok">>]
        /\ UNCHANGED <<banned_peers, max_peers, updates>>
        /\ UNCHANGED <<vmVars, proofVars, zkVars, arith, syncVars, restVars>>

\* PeerManager::add_peer, with a peer fresh from Peer::new
AddPeer ==
    \E id \in PeerIds :
        /\ IF Cardinality(DOMAIN peers) >= max_peers
           THEN /\ peer_call' = [op |-> "add_peer", result |-> <<"Err", "Max peers reached">>]
                /\ UNCHANGED peers
           ELSE IF id \in banned_peers
           THEN /\ peer_call' = [op |-> "add_peer", result |-> <<"Err", "Peer is banned">>]
                /\ UNCHANGED peers
           ELSE /\ peers' = MapInsert(peers, id, PeerNew)
                /\ peer_call' = [op |-> "add_peer", result |-> <<"Ok">>]
        /\ UNCHANGED <<banned_peers, max_peers, updates>>
        /\ UNCHANGED <<vmVars, proofVars, zkVars, arith, syncVars, restVars>>

\* PeerManager::remove_peer
RemovePeer ==
    \E id \in PeerIds :
        /\ peers' = MapRemove(peers, id)
        /\ peer_call' = [op |-> "remove_peer", result |-> <<"Ok">>]
        /\ UNCHANGED <<banned_peers, max_peers, updates>>
        /\ UNCHANGED <<vmVars, proofVars, zkVars, arith, syncVars, restVars>>

\* PeerManager::ban_peer: the peer is marked, its id banned, and the peer removed
BanPeer ==
    \E id \in PeerIds :
        /\ banned_peers' = banned_peers \cup {id}
        /\ peers' = MapRemove(peers, id)
        /\ peer_call' = [op |-> "ban_peer", result |-> <<"Ok">>]
        /\ UNCHANGED <<max_peers, updates>>
        /\ UNCHANGED <<vmVars, proofVars, zkVars, arith, syncVars, restVars>>

\* PeerManager::unban_peer
UnbanPeer ==
    \E id \in PeerIds :
        /\ banned_peers' = banned_peers \ {id}
        /\ peer_call' = [op |-> "unban_peer", result |-> <<"Ok">>]
        /\ UNCHANGED <<peers, max_peers, updates>>
        /\ UNCHANGED <<vmVars, proofVars, zkVars, arith, syncVars, restVars>>

\* PeerManager::update_peer_status
UpdatePeerStatus ==
    \E id \in PeerIds, status \in {"Connected", "Disconnected"} :
        /\ peers' = IF id \in DOMAIN peers THEN [peers EXCEPT ![id].status = status] ELSE peers
        /\ peer_call' = [op |-> "update_peer_status", result |-> <<"Ok">>]
        /\ UNCHANGED <<banned_peers, max_peers, updates>>
        /\ UNCHANGED <<vmVars, proofVars, zkVars, arith, syncVars, restVars>>

\* PeerManager::cleanup_disconnected_peers
CleanupDisconnectedPeers ==
    /\ peers' = [id \in {x \in DOMAIN peers : peers[x].status # "Disconnected"} |-> peers[id]]
    /\ peer_call' = [op |-> "cleanup_disconnected_peers", result |-> <<"Ok">>]
    /\ UNCHANGED <<banned_peers, max_peers, updates>>
    /\ UNCHANGED <<vmVars, proofVars, zkVars, arith, syncVars, restVars>>

\* Peer::update_reputation on a peer reached through get_peer_mut
UpdateReputation ==
    \E id \in DOMAIN peers, delta \in Deltas :
        /\ updates < MaxUpdates
        /\ updates' = updates + 1
        /\ peers' = [peers EXCEPT ![id] = UpdatedPeer(@, delta)]
        /\ peer_call' = [op |-> "update_reputation", id |-> id, delta |-> delta,
                         result |-> <<"Ok">>]
        /\ UNCHANGED <<banned_peers, max_peers>>
        /\ UNCHANGED <<vmVars, proofVars, zkVars, arith, syncVars, restVars>>

PeerNext ==
    \/ AddPeer \/ RemovePeer \/ BanPeer \/ UnbanPeer \/ UpdatePeerStatus
    \/ CleanupDisconnectedPeers \/ UpdateReputation

PeerSpec == PeerInit /\ [][PeerNext]_vars

---------------------------------------------------------------------------
(* State sync (src/src/network/sync.rs) *)

\* The StateSync methods are called at most this many times.
MaxSyncCalls == 4

\* The clock is followed up to this many seconds.
MaxClock == 302

\* StateSync::new: timeout: Duration::from_secs(30), retry_limit: 3
RequestTimeout == 30
RetryLimit == 3

\* Duration::from_secs(300) in check_timeouts
SyncTimeout == 300

\* The peers sync is started with, the block numbers asked for, and the seconds
\* that pass between two calls: the clock read again, and a timeout's worth.
SyncPeerIds == {1, 2}
Blocks == {0, 1}
Elapsed == {1, 301}

\* StateRequest; two requests are equal when all their fields are, timestamp included.
StateRequest(block_number, timestamp) ==
    [block_number |-> block_number, account |-> "test", storage_keys |-> <<>>,
     timestamp |-> timestamp]

\* requests.retain(|r| r != &request)
Retain(requests, request) == SelectSeq(requests, LAMBDA r : r # request)

RECURSIVE CountFailures(_, _)
\* `*failed_requests.entry(request).or_default() += 1` for each request of timed_out
CountFailures(failed, timed_out) ==
    IF timed_out = <<>> THEN failed
    ELSE LET r == Head(timed_out)
             n == IF r \in DOMAIN failed THEN failed[r] ELSE 0
         IN CountFailures(MapInsert(failed, r, n + 1), Tail(timed_out))

\* check_timeouts, the body of its loop for one peer: the requests older than the
\* timeout are counted as failed, taken off the peer and put back on the queue.
TimeoutPeer(s, p, t) ==
    LET requests == s.pending_requests[p]
        timed_out == SelectSeq(requests, LAMBDA r : t - r.timestamp > RequestTimeout)
    IN [s EXCEPT !.failed_requests = CountFailures(@, timed_out),
                 !.pending_requests[p] =
                     SelectSeq(requests, LAMBDA r : ~(t - r.timestamp > RequestTimeout)),
                 !.sync_queue = @ \o timed_out]

RECURSIVE TimeoutPeers(_, _, _)
\* check_timeouts, its loop: pending_requests.iter_mut() yields the peers in an order
\* of its own, so every order is a possible one.
TimeoutPeers(s, ps, t) ==
    IF ps = {} THEN {s}
    ELSE UNION {TimeoutPeers(TimeoutPeer(s, p, t), ps \ {p}, t) : p \in ps}

\* StateSync::check_timeouts at time t: the states it can leave
CheckTimeouts(s, t) ==
    {IF s1.status[1] = "Syncing" /\ t - s1.last_progress > SyncTimeout
     THEN [s1 EXCEPT !.status = <<"Error", "Sync timed out">>]
     ELSE s1 : s1 \in TimeoutPeers(s, DOMAIN s.pending_requests, t)}

RECURSIVE DrainQueueLate(_, _)
\* The while loop giving up one timeout later: `retry_count > self.retry_limit`.
DrainQueueLate(s, bs) ==
    IF s.sync_queue = <<>> THEN {[state |-> s, result |-> <<"Ok">>]}
    ELSE LET request == Head(s.sync_queue)
             s1 == [s EXCEPT !.sync_queue = Tail(@)]
             retry_count == IF request \in DOMAIN s.failed_requests
                            THEN s.failed_requests[request] ELSE 0
             available == {p \in DOMAIN s.pending_requests :
                              Len(s.pending_requests[p]) < bs}
         IN IF request \in s.completed_requests THEN DrainQueueLate(s1, bs)
            ELSE IF retry_count > RetryLimit
            THEN {[state |-> s1, result |-> <<"Err", "SyncError", retry_count>>]}
            ELSE IF available = {}
            THEN {[state |-> [s1 EXCEPT !.sync_queue = Append(@, request)],
                   result |-> <<"Ok">>]}
            ELSE UNION {DrainQueueLate([s1 EXCEPT !.pending_requests[p] = Append(@, request)], bs) :
                            p \in available}

RECURSIVE DrainQueue(_, _)
\* process_sync_queue, its while loop: the states and results it can end with. find
\* takes the first peer with room in the map's own order: any peer with room.
DrainQueue(s, bs) ==
    IF s.sync_queue = <<>> THEN {[state |-> s, result |-> <<"Ok">>]}
    ELSE LET request == Head(s.sync_queue)
             s1 == [s EXCEPT !.sync_queue = Tail(@)]
             retry_count == IF request \in DOMAIN s.failed_requests
                            THEN s.failed_requests[request] ELSE 0
             available == {p \in DOMAIN s.pending_requests :
                              Len(s.pending_requests[p]) < bs}
         IN IF request \in s.completed_requests THEN DrainQueue(s1, bs)
            ELSE IF retry_count >= RetryLimit
            THEN {[state |-> s1, result |-> <<"Err", "SyncError", retry_count>>]}
            ELSE IF available = {}
            THEN {[state |-> [s1 EXCEPT !.sync_queue = Append(@, request)],
                   result |-> <<"Ok">>]}
            ELSE UNION {DrainQueue([s1 EXCEPT !.pending_requests[p] = Append(@, request)], bs) :
                            p \in available}

\* `sync_queue.is_empty() && pending_requests.values().all(|r| r.is_empty())`
SyncComplete(s) ==
    s.sync_queue = <<>> /\ \A p \in DOMAIN s.pending_requests : s.pending_requests[p] = <<>>

\* StateSync::process_sync_queue at time t: the states and results it can end with
ProcessSyncQueue(s, t, bs) ==
    {IF o.result = <<"Ok">> /\ SyncComplete(o.state)
     THEN [o EXCEPT !.state.status = <<"Idle">>]
     ELSE o : o \in UNION {DrainQueue(s1, bs) : s1 \in CheckTimeouts(s, t)}}

SyncInit ==
    /\ sync_state = SyncStateNew(0)
    /\ batch_size \in {1, TestBatchSize}
    /\ now = 0
    /\ sync_call = [op |-> "none", n |-> 0, at |-> 0]
    /\ VmIdle /\ ProofIdle /\ ZkIdle /\ ArithIdle /\ PeerIdle /\ RestIdle

\* Time passes between two calls.
Tick ==
    \E d \in Elapsed :
        /\ now = sync_call.at
        /\ sync_call.n < MaxSyncCalls
        /\ now + d <= MaxClock
        /\ now' = now + d
        /\ UNCHANGED <<sync_state, batch_size, sync_call>>
        /\ UNCHANGED <<vmVars, proofVars, zkVars, arith, peerVars, restVars>>

\* StateSync::start_sync
StartSync ==
    \E peer_id \in SyncPeerIds :
        /\ sync_call.n < MaxSyncCalls
        /\ LET s1 == IF sync_state.status = <<"Idle">>
                     THEN [sync_state EXCEPT !.status = <<"Syncing", 0, 0, 1>>,
                                             !.last_progress = now]
                     ELSE sync_state
           IN sync_state' =
                IF peer_id \in DOMAIN s1.pending_requests THEN s1
                ELSE [s1 EXCEPT !.pending_requests = MapInsert(@, peer_id, <<>>)]
        /\ sync_call' = [op |-> "start_sync", n |-> sync_call.n + 1, at |-> now,
                         result |-> <<"Ok">>]
        /\ UNCHANGED <<batch_size, now>>
        /\ UNCHANGED <<vmVars, proofVars, zkVars, arith, peerVars, restVars>>

\* StateSync::handle_request, with a request made now or, as in test_sync_timeout,
\* dated 31 seconds back
HandleRequest ==
    \E block_number \in Blocks, timestamp \in {t \in {now, now - 31} : t >= 0} :
        /\ sync_call.n < MaxSyncCalls
        /\ LET request == StateRequest(block_number, timestamp)
               s1 == [sync_state EXCEPT !.sync_queue = Append(@, request)]
           IN \E o \in ProcessSyncQueue(s1, now, batch_size) :
                 /\ sync_state' = o.state
                 /\ sync_call' = [op |-> "handle_request", n |-> sync_call.n + 1, at |-> now,
                                  request |-> request, result |-> o.result]
        /\ UNCHANGED <<batch_size, now>>
        /\ UNCHANGED <<vmVars, proofVars, zkVars, arith, peerVars, restVars>>

\* StateSync::handle_response: the request it marks completed and removes is built
\* from the response, with the time of the call as its timestamp
HandleResponse ==
    \E block_number \in Blocks :
        /\ sync_call.n < MaxSyncCalls
        /\ LET request == StateRequest(block_number, now)
               s1 == [sync_state EXCEPT
                        !.completed_requests = @ \cup {request},
                        !.pending_requests =
                            [p \in DOMAIN @ |-> Retain(@[p], request)]]
               s2 == IF s1.status[1] = "Syncing" /\ block_number > s1.status[2]
                     THEN [s1 EXCEPT !.status[2] = block_number, !.last_progress = now]
                     ELSE s1
           IN \E o \in ProcessSyncQueue(s2, now, batch_size) :
                 /\ sync_state' = o.state
                 /\ sync_call' = [op |-> "handle_response", n |-> sync_call.n + 1, at |-> now,
                                  request |-> request, result |-> o.result]
        /\ UNCHANGED <<batch_size, now>>
        /\ UNCHANGED <<vmVars, proofVars, zkVars, arith, peerVars, restVars>>

\* StateSync::handle_peer_disconnected
HandlePeerDisconnected ==
    \E peer_id \in SyncPeerIds :
        /\ sync_call.n < MaxSyncCalls
        /\ LET s1 == IF peer_id \in DOMAIN sync_state.pending_requests
                     THEN [sync_state EXCEPT
                             !.sync_queue = @ \o sync_state.pending_requests[peer_id],
                             !.pending_requests = MapRemove(@, peer_id)]
                     ELSE sync_state
           IN sync_state' =
                IF s1.status[1] = "Syncing"
                THEN [s1 EXCEPT !.status[4] = IF @ = 0 THEN 0 ELSE @ - 1]
                ELSE s1
        /\ sync_call' = [op |-> "handle_peer_disconnected", n |-> sync_call.n + 1, at |-> now,
                         result |-> <<"Ok">>]
        /\ UNCHANGED <<batch_size, now>>
        /\ UNCHANGED <<vmVars, proofVars, zkVars, arith, peerVars, restVars>>

SyncNext == Tick \/ StartSync \/ HandleRequest \/ HandleResponse \/ HandlePeerDisconnected

SyncSpec == SyncInit /\ [][SyncNext]_vars

-----------------------------------------------------------------------------
(* Consensus (src/src/network/consensus.rs) *)

\* process_block, submit_vote and cleanup are called at most this many times.
MaxConsensusCalls == 4

\* ConsensusConfig::default: validator_stake_threshold: 1000
ValidatorStakeThreshold == 1000

\* The validators the state is given, with a stake below and one at the threshold.
ValidatorNames == {"validator1", "validator2", "validator3"}
Stakes == {ValidatorStakeThreshold - 1, ValidatorStakeThreshold}

\* The blocks handed to process_block: two of the same number by different authors
\* and one of the next number. The fields left out are the same in all of them.
ConsensusBlocks ==
    {[header |-> [number |-> 1, author |-> "validator1"]],
     [header |-> [number |-> 1, author |-> "validator2"]],
     [header |-> [number |-> 2, author |-> "validator1"]]}

\* Block::hash: blake3 of the serialized header, taken as injective
BlockHash(block) == <<"blake3", block.header.number, block.header.author>>

\* ConsensusEngine::is_valid_validator
IsValidValidator(validator, state) ==
    IF validator \in DOMAIN state.validators
    THEN state.validators[validator].stake >= ValidatorStakeThreshold
    ELSE FALSE

\* check_consensus with the majority reached at exactly two thirds
CheckConsensusAtTwoThirds(votes, total_validators) == votes * 3 >= total_validators * 2

\* ConsensusEngine::check_consensus
CheckConsensus(votes, total_validators) == votes * 3 > total_validators * 2

ConsensusInit ==
    /\ consensus = ConsensusStateNew
    /\ cons_call = [op |-> "none", n |-> 0]
    /\ VmIdle /\ ProofIdle /\ ZkIdle /\ ArithIdle /\ PeerIdle /\ SyncIdle
    /\ MemoryIdle /\ GcIdle

\* `state.validators.insert(address, ValidatorInfo { .. })`, the way the tests of the
\* module register a validator; inserting again replaces the stake.
InsertValidator ==
    \E address \in ValidatorNames, stake \in Stakes :
        /\ consensus' = [consensus EXCEPT !.validators =
                            MapInsert(@, address, [address |-> address, stake |-> stake])]
        /\ cons_call' = [op |-> "insert_validator", n |-> cons_call.n]
        /\ UNCHANGED <<vmVars, proofVars, zkVars, arith, peerVars, syncVars, memVars, gcVars>>

\* ConsensusEngine::process_block: validate_block is always true
ProcessBlock ==
    \E block \in ConsensusBlocks :
        /\ cons_call.n < MaxConsensusCalls
        /\ consensus' = [consensus EXCEPT
                            !.pending_blocks = MapInsert(@, BlockHash(block), block),
                            !.votes = MapInsert(@, BlockHash(block), {})]
        /\ cons_call' = [op |-> "process_block", n |-> cons_call.n + 1, block |-> block,
                         result |-> <<"Ok">>]
        /\ UNCHANGED <<vmVars, proofVars, zkVars, arith, peerVars, syncVars, memVars, gcVars>>

\* ConsensusEngine::submit_vote; Instant::now() is the number of the call
SubmitVote ==
    \E validator \in ValidatorNames, block \in ConsensusBlocks :
        LET block_hash == BlockHash(block)
            n == cons_call.n + 1
        IN /\ cons_call.n < MaxConsensusCalls
           /\ IF ~IsValidValidator(validator, consensus)
              THEN /\ cons_call' = [op |-> "submit_vote", n |-> n, validator |-> validator,
                                    block_hash |-> block_hash,
                                    result |-> <<"Err", "ConsensusError", "Invalid validator">>]
                   /\ UNCHANGED consensus
              ELSE /\ cons_call' = [op |-> "submit_vote", n |-> n, validator |-> validator,
                                    block_hash |-> block_hash, result |-> <<"Ok">>]
                   /\ IF block_hash \notin DOMAIN consensus.votes THEN UNCHANGED consensus
                      ELSE LET votes == consensus.votes[block_hash] \cup {validator}
                               s1 == [consensus EXCEPT !.votes[block_hash] = votes]
                           IN consensus' =
                                IF /\ CheckConsensus(Cardinality(votes),
                                                     Cardinality(DOMAIN s1.validators))
                                   /\ block_hash \in DOMAIN s1.pending_blocks
                                THEN LET b == s1.pending_blocks[block_hash]
                                     IN [s1 EXCEPT
                                           !.pending_blocks = MapRemove(@, block_hash),
                                           !.finalized_blocks =
                                               MapInsert(@, b.header.number, b),
                                           !.last_finalized_time = n]
                                ELSE s1
           /\ UNCHANGED <<vmVars, proofVars, zkVars, arith, peerVars, syncVars, memVars, gcVars>>

\* ConsensusEngine::cleanup, the last step of a round of start: the votes of the
\* hashes that are no longer pending are dropped. No transaction is pending.
Cleanup ==
    /\ cons_call.n < MaxConsensusCalls
    /\ consensus' = [consensus EXCEPT !.votes =
                        [h \in DOMAIN @ \cap DOMAIN consensus.pending_blocks |-> @[h]]]
    /\ cons_call' = [op |-> "cleanup", n |-> cons_call.n + 1, result |-> <<"Ok">>]
    /\ UNCHANGED <<vmVars, proofVars, zkVars, arith, peerVars, syncVars, memVars, gcVars>>

ConsensusNext == InsertValidator \/ ProcessBlock \/ SubmitVote \/ Cleanup

ConsensusSpec == ConsensusInit /\ [][ConsensusNext]_vars

-----------------------------------------------------------------------------
(* Garbage collector (src/src/memory/gc.rs, src/src/memory/segment.rs) *)

\* The list handed to collect has at most this many segments, and collect is called
\* at most this many times.
MaxSegments == 3
MaxCollections == 2

\* MemorySegment::new followed by set_shared and set_owner: the metadata collect
\* looks at. The size tells the segments of a list apart.
Segment(size, is_shared, owner_id) ==
    [size |-> size, is_shared |-> is_shared, owner_id |-> owner_id]

\* GarbageCollector::is_root_segment
IsRootSegment(segment) == segment.is_shared \/ segment.owner_id # <<"None">>

\* GarbageCollector::mark: the indices of the root segments
Mark(segs) == {i - 1 : i \in {j \in DOMAIN segs : IsRootSegment(segs[j])}}

RECURSIVE Sweep(_, _, _, _)
\* GarbageCollector::sweep, from index i on: segs.remove(i) moves the later segments
\* one index down, and the marks are the indices mark has seen.
Sweep(marked, segs, i, freed) ==
    IF i >= Len(segs) THEN [segments |-> segs, freed |-> freed]
    ELSE IF i \notin marked
    THEN Sweep(marked, SubSeq(segs, 1, i) \o SubSeq(segs, i + 2, Len(segs)), i, freed + 1)
    ELSE Sweep(marked, segs, i + 1, freed)

GcInit ==
    /\ segments \in UNION {{[i \in 1..n |-> Segment(i, f[i][1], f[i][2])] :
                               f \in [1..n -> BOOLEAN \X {<<"None">>, <<"Some", 1>>}]} :
                           n \in 0..MaxSegments}
    /\ gc = GarbageCollectorNew(DebugGcThreshold)
    /\ gc_call = [op |-> "none"]
    /\ VmIdle /\ ProofIdle /\ ZkIdle /\ ArithIdle /\ PeerIdle /\ SyncIdle
    /\ ConsensusIdle /\ MemoryIdle

\* GarbageCollector::collect on the list
Collect ==
    /\ gc.collections < MaxCollections
    /\ LET swept == Sweep(Mark(segments), segments, 0, 0)
       IN /\ segments' = swept.segments
          /\ gc' = [gc EXCEPT !.collections = @ + 1,
                              !.freed_segments = @ + swept.freed,
                              !.freed_pages = @ + swept.freed,
                              !.marked = {}]
          /\ gc_call' = [op |-> "collect", given |-> segments]
    /\ UNCHANGED <<vmVars, proofVars, zkVars, arith, peerVars, syncVars, consVars, memVars>>

GcNext == Collect

GcSpec == GcInit /\ [][GcNext]_vars

-----------------------------------------------------------------------------
(* Memory manager (src/src/memory/mod.rs, page_table.rs, permissions.rs) *)

\* The MemoryManager methods are called at most this many times.
MaxMemCalls == 4

\* The addresses the callers use, the permission bits they set (NONE, READ, WRITE,
\* READ_WRITE) and the bytes they write.
MemAddresses == {[segment_id |-> sg, page_id |-> 0, offset |-> 0] : sg \in {0, 1}}
PermissionBits == 0..3
WriteData == {<<7>>}

\* Permission::Read and Permission::Write as u8
PermRead == 1
PermWrite == 2

\* AccessPermissions::has_permission, `(self.bits & permission) == permission`, for
\* a permission of one bit
HasPermission(bits, permission) == (bits \div permission) % 2 = 1

\* check_permissions accepting every address that has an entry
CheckPermissionsAnyEntry(m, addr, required) == addr \in DOMAIN m.permissions

\* MemoryManager::check_permissions: TRUE for Ok(()), FALSE for PermissionDenied
CheckPermissions(m, addr, required) ==
    IF addr \in DOMAIN m.permissions THEN HasPermission(m.permissions[addr], required)
    ELSE FALSE

\* LRUCache::get: the entry, and the key moved to the front of lru
LruCacheGet(c, key) ==
    IF \E i \in DOMAIN c.lru : c.lru[i] = key
    THEN [cache |-> [c EXCEPT !.lru = <<key>> \o SelectSeq(@, LAMBDA x : x # key)],
          data |-> IF key \in DOMAIN c.cache.cache THEN <<"Some", c.cache[key]>>
                   ELSE <<"None">>]
    ELSE [cache |-> c, data |-> <<"None">>]

\* LRUCache::insert
LruCacheInsert(c, key, value) ==
    LET full == Cardinality(DOMAIN c.cache) >= c.capacity /\ c.lru # <<>>
        c1 == IF full
              THEN [c EXCEPT !.cache = MapRemove(@, c.lru[Len(c.lru)]),
                             !.lru = SubSeq(@, 1, Len(@) - 1)]
              ELSE c
    IN [c1 EXCEPT !.cache = MapInsert(@, key, value), !.lru = <<key>> \o @]

\* PageTable::read: every page has the default flags, present and writable
PageRead(t, page_id, offset, size) ==
    IF page_id \notin DOMAIN t.pages THEN <<"Err", "PageFault", page_id>>
    ELSE IF offset + size > t.page_size THEN <<"Err", "PageFault", page_id>>
    ELSE <<"Ok", SubSeq(t.pages[page_id], offset + 1, offset + size)>>

MemoryInit ==
    /\ mm = MemoryManagerNew(DebugPageSize, DebugGcThreshold, DebugCacheSize)
    /\ mm_call = [op |-> "none", n |-> 0, reads |-> {}]
    /\ VmIdle /\ ProofIdle /\ ZkIdle /\ ArithIdle /\ PeerIdle /\ SyncIdle
    /\ ConsensusIdle /\ GcIdle

\* MemoryManager::allocate: with the write guards of segments and page_table in
\* hand it calls should_collect_garbage, which asks for `self.segments.read()`; the
\* lock is not reentrant, so the call waits for its own guard and never returns,
\* and the two locks stay taken. A call made while they are taken waits as well.
Allocate ==
    /\ mm_call.n < MaxMemCalls
    /\ mm' = [mm EXCEPT !.write_locked = TRUE]
    /\ mm_call' = [op |-> "allocate", n |-> mm_call.n + 1, reads |-> mm_call.reads,
                   result |-> <<"hang">>]
    /\ UNCHANGED <<vmVars, proofVars, zkVars, arith, peerVars, syncVars, consVars, gcVars>>

\* MemoryManager::deallocate: Vec::remove panics on an index that is not in the list
Deallocate ==
    \E addr \in MemAddresses :
        /\ mm_call.n < MaxMemCalls
        /\ IF mm.write_locked
           THEN /\ mm_call' = [op |-> "deallocate", n |-> mm_call.n + 1, addr |-> addr,
                               reads |-> mm_call.reads, result |-> <<"hang">>]
                /\ UNCHANGED mm
           ELSE IF addr.segment_id >= Len(mm.segments)
           THEN /\ mm_call' = [op |-> "deallocate", n |-> mm_call.n + 1, addr |-> addr,
                               reads |-> mm_call.reads,
                               result |-> <<"panic", "removal index out of bounds">>]
                /\ UNCHANGED mm
           ELSE /\ mm' = [mm EXCEPT
                            !.segments = SubSeq(@, 1, addr.segment_id)
                                            \o SubSeq(@, addr.segment_id + 2, Len(@)),
                            !.page_table.pages = MapRemove(@, addr.page_id),
                            !.page_table.free_pages =
                                IF addr.page_id \in DOMAIN mm.page_table.pages
                                THEN Append(@, addr.page_id) ELSE @,
                            !.permissions = MapRemove(@, addr),
                            !.stats.total_deallocations = @ + 1]
                /\ mm_call' = [op |-> "deallocate", n |-> mm_call.n + 1, addr |-> addr,
                               reads |-> mm_call.reads, result |-> <<"Ok">>]
        /\ UNCHANGED <<vmVars, proofVars, zkVars, arith, peerVars, syncVars, consVars, gcVars>>

\* MemoryManager::read: the cache is asked first, then the permissions, then the
\* page table, whose lock the call waits for when allocate holds it.
Read ==
    \E addr \in MemAddresses, size \in {1} :
        LET got == LruCacheGet(mm.cache, addr)
            page == PageRead(mm.page_table, addr.page_id, addr.offset, size)
            call(r) == [op |-> "read", n |-> mm_call.n + 1, addr |-> addr,
                        reads |-> IF r[1] = "Err" /\ r[2] = "PermissionDenied"
                                  THEN mm_call.reads ELSE mm_call.reads \cup {addr},
                        result |-> r]
        IN /\ mm_call.n < MaxMemCalls
           /\ IF got.data # <<"None">>
              THEN /\ mm' = [mm EXCEPT !.cache = got.cache, !.stats.cache_hits = @ + 1]
                   /\ mm_call' = call(<<"Ok", got.data[2]>>)
              ELSE LET m1 == [mm EXCEPT !.cache = got.cache, !.stats.cache_misses = @ + 1]
                   IN IF ~CheckPermissions(m1, addr, PermRead)
                      THEN /\ mm' = m1
                           /\ mm_call' = call(<<"Err", "PermissionDenied", addr.segment_id>>)
                      ELSE IF m1.write_locked
                      THEN /\ mm' = m1
                           /\ mm_call' = call(<<"hang">>)
                      ELSE IF page[1] = "Err"
                      THEN /\ mm' = m1
                           /\ mm_call' = call(page)
                      ELSE /\ mm' = [m1 EXCEPT !.cache = LruCacheInsert(@, addr, page[2])]
                           /\ mm_call' = call(page)
           /\ UNCHANGED <<vmVars, proofVars, zkVars, arith, peerVars, syncVars, consVars, gcVars>>

\* MemoryManager::write
Write ==
    \E addr \in MemAddresses, data \in WriteData :
        LET call(r) == [op |-> "write", n |-> mm_call.n + 1, addr |-> addr,
                        reads |-> mm_call.reads, result |-> r]
            t == mm.page_table
        IN /\ mm_call.n < MaxMemCalls
           /\ IF ~CheckPermissions(mm, addr, PermWrite)
              THEN /\ mm_call' = call(<<"Err", "PermissionDenied", addr.segment_id>>)
                   /\ UNCHANGED mm
              ELSE IF mm.write_locked
              THEN /\ mm_call' = call(<<"hang">>)
                   /\ UNCHANGED mm
              ELSE IF \/ addr.page_id \notin DOMAIN t.pages
                      \/ addr.offset + Len(data) > t.page_size
              THEN /\ mm_call' = call(<<"Err", "PageFault", addr.page_id>>)
                   /\ UNCHANGED mm
              ELSE /\ mm' = [mm EXCEPT
                               !.page_table.pages[addr.page_id] =
                                   [i \in DOMAIN @ |->
                                      IF i > addr.offset /\ i <= addr.offset + Len(data)
                                      THEN data[i - addr.offset] ELSE @[i]],
                               !.cache.cache = MapRemove(@, addr),
                               !.cache.lru = SelectSeq(@, LAMBDA x : x # addr)]
                   /\ mm_call' = call(<<"Ok">>)
           /\ UNCHANGED <<vmVars, proofVars, zkVars, arith, peerVars, syncVars, consVars, gcVars>>

\* MemoryManager::protect
Protect ==
    \E addr \in MemAddresses, perms \in PermissionBits :
        /\ mm_call.n < MaxMemCalls
        /\ mm' = [mm EXCEPT !.permissions = MapInsert(@, addr, perms)]
        /\ mm_call' = [op |-> "protect", n |-> mm_call.n + 1, addr |-> addr,
                       perms |-> perms, reads |-> mm_call.reads, result |-> <<"Ok">>]
        /\ UNCHANGED <<vmVars, proofVars, zkVars, arith, peerVars, syncVars, consVars, gcVars>>

MemoryNext == Allocate \/ Deallocate \/ Read \/ Write \/ Protect

MemorySpec == MemoryInit /\ [][MemoryNext]_vars

---------------------------------------------------------------------------
(* Properties of the interpreter, under Spec *)

\* C1: whenever execute returns an error other than GasLimitExceeded, stack, memory,
\* storage, program_counter and gas_remaining are what they were before the failing
\* opcode started.
C1_ErrorLeavesContext ==
    [][(result'[1] = "Err" /\ result'[2] # "GasLimitExceeded")
        => (stack' = stack /\ memory' = memory /\ storage' = storage
            /\ pc' = pc /\ gas' = gas)]_vars

\* The full cost of an opcode as C2 counts it: CREATE's two parts together.
FullCost(op) == IF op = 11 THEN 400 + 32000 ELSE GasCostOf(op)

\* C2: an opcode reached with less gas than its full cost, CREATE with its two-part
\* cost included, returns GasLimitExceeded and has changed nothing: stack, memory,
\* program_counter and gas_remaining keep their values.
C2_OutOfGasLeavesContext ==
    [][(Running /\ gas < FullCost(Opcode))
        => (result' = <<"Err", "GasLimitExceeded">>
            /\ stack' = stack /\ memory' = memory /\ pc' = pc /\ gas' = gas)]_vars

\* The costs of the opcode table as C3 lists them.
TableCost(op) ==
    CASE op = 11 -> 400 + 32000
      [] op = 255 -> 0
      [] OTHER -> OpCostTable[op]

\* C3: every executed opcode lowers gas_remaining by exactly its cost in the opcode
\* table, STOP by 0: the gas used by a successful run is the sum of the table costs.
C3_GasByTable ==
    [][(Running /\ result'[1] \in {"running", "Ok"}) => gas' = gas - TableCost(Opcode)]_vars

C9_Terminates ==
    /\ [](result[1] # "running" \/ ENABLED Next)
    /\ [][result[1] = "running"
          => (result'[1] # "running" \/ (pc' > pc /\ pc' <= Len(program)))]_vars

\* C9's case: a run of many steps, CREATE among them, has ended.
C9_Witness == result = <<"Ok">> /\ program = ContractProgram /\ Len(call_stack) = 1

\* The opcodes of the opcode table.
TableOpcodes == (1..15) \cup {255}

\* C10: execute returns InvalidOpcode(op) exactly when the byte at the program
\* counter is not an opcode of the table.
C10_InvalidOpcodeExact ==
    [][Running => ((result' = <<"Err", "InvalidOpcode", Opcode>>) <=> (Opcode \notin TableOpcodes))]_vars

\* C11: for all immediate bytes a, b, c the program PUSH a, PUSH b, ADD, PUSH c, MUL,
\* STOP ends in Ok with the single stack entry Int((a+b)*c), and PUSH a, PUSH b, ADD,
\* STOP ends in Ok with Int(a+b) on top of the stack. (a, b, c are read off the
\* program: it is AddMulProgram(a, b, c) only for a, b, c its 2nd, 4th and 7th byte.)
C11_Arithmetic ==
    /\ (/\ result[1] # "running"
        /\ Len(program) = 9
        /\ program = AddMulProgram(program[2], program[4], program[7]))
       => (result = <<"Ok">>
           /\ stack = <<IntV((program[2] + program[4]) * program[7])>>)
    /\ (/\ result[1] # "running"
        /\ Len(program) = 6
        /\ program = AddProgram(program[2], program[4]))
       => (result = <<"Ok">>
           /\ stack # <<>>
           /\ stack[Len(stack)] = IntV(program[2] + program[4]))

\* C11's case: the largest immediates, (255 + 255) * 255.
C11_Witness ==
    program = AddMulProgram(255, 255, 255) /\ result = <<"Ok">> /\ stack = <<IntV(130050)>>

\* C12: the program of scenario C, written with the address as a byte after STORE and
\* LOAD, ends in Ok with memory[0] = Int(42), memory[1] = Int(55), nothing else in
\* memory, and Int(97) alone on the stack.
C12_MemoryScenario ==
    (program = MemoryProgram /\ result[1] # "running")
    => /\ result = <<"Ok">>
       /\ DOMAIN memory = {0, 1}
       /\ memory[0] = IntV(42) /\ memory[1] = IntV(55)
       /\ stack = <<IntV(97)>>

\* C13: program_counter never exceeds program.len, and when execute has returned Ok
\* the byte before program_counter is STOP (program[pc-1], counted from 0) or
\* program_counter is program.len.
C13_PcAtHalt ==
    /\ pc <= Len(program)
    /\ result = <<"Ok">> => ((pc >= 1 /\ program[pc] = 255) \/ pc = Len(program))

\* C14: once a call of execute has returned Ok, no step of a later call changes
\* stack, memory, storage, program_counter, gas_remaining or state_root.
C14_FinalAfterOk ==
    [][(\E i \in DOMAIN returned : returned[i] = <<"Ok">>)
        => UNCHANGED <<stack, memory, storage, pc, gas, state_root>>]_vars

\* C16: after a successful execute the execution trace has one entry for each
\* instruction the interpreter executed, in order, with that instruction's opcode and
\* gas cost.
C16_TracePerInstruction ==
    result = <<"Ok">>
    => /\ Len(vm_state.execution_trace) = Len(executed)
       /\ \A i \in DOMAIN executed :
            /\ vm_state.execution_trace[i].opcode = executed[i].opcode
            /\ vm_state.execution_trace[i].gas_cost = executed[i].gas_cost

---------------------------------------------------------------------------
(* Properties of compute_state_root, under RootSpec *)

\* Two layouts hold the same key-to-value mapping.
SameMapping(s, t) == {s[i] : i \in DOMAIN s} = {t[i] : i \in DOMAIN t}

---------------------------------------------------------------------------
(* Properties of the proof system, under ProofSpec *)

\* pd is a ProofData of prove with its proof or its public inputs changed, the other
\* fields left as they are.
TamperedIssued(pd) ==
    \E q \in issued :
        /\ pd.hash = q.hash
        /\ \/ pd.proof # q.proof /\ pd.public_inputs = q.public_inputs
           \/ pd.proof = q.proof /\ pd.public_inputs # q.public_inputs

\* C4: verify does not accept a ProofData of prove whose proof or public inputs were
\* changed, nor any ProofData whose hash is not the digest of its proof and public
\* inputs, whatever the cache contains.
C4_ProofBinding ==
    (last_call.op = "verify"
        /\ (TamperedIssued(last_call.pd)
            \/ last_call.pd.hash # HashProof(last_call.pd.proof, last_call.pd.public_inputs)))
    => last_call.result # <<"Ok", TRUE>>

\* C5: batch_verify returns true exactly when verify returns true for each element.
C5_BatchEquivalence ==
    last_call.op = "batch_verify"
    => ((last_call.result = <<"Ok", TRUE>>)
        <=> (\A i \in DOMAIN last_call.verify_each : last_call.verify_each[i] = <<"Ok", TRUE>>))

\* C6: verify returns Ok(true) for every ProofData that prove returned for a circuit
\* whose witness satisfies the constraints, cached or evicted.
C6_Completeness ==
    (last_call.op = "verify" /\ last_call.pd \in issued /\ last_call.pd.proof.valid)
    => last_call.result = <<"Ok", TRUE>>

\* C6's case: verify was called on such a ProofData after its cache entry was evicted.
C6_Witness ==
    /\ last_call.op = "verify" /\ last_call.pd \in issued /\ last_call.pd.proof.valid
    /\ CacheIndex(proof_cache, last_call.pd.hash) = 0
    /\ last_call.result = <<"Ok", TRUE>>

\* C17: verify never fails: for every ProofData, malformed ones included, it returns
\* Ok(true) or Ok(false); an error of the SNARK verification gives Ok(false).
C17_VerifyNeverErr == last_call.op = "verify" => last_call.result[1] = "Ok"

\* The keys of the cache.
CacheKeys(cache) == {cache[i].key : i \in DOMAIN cache}

\* C18: a prove that fails leaves the cache with the same entries in the same recency
\* order, and a key enters the cache only with a prove that returns Ok.
C18_FailedProveLeavesCache ==
    /\ []((last_call.op = "prove" /\ last_call.result[1] = "Err")
            => proof_cache = last_call.before)
    /\ [][CacheKeys(proof_cache') \ CacheKeys(proof_cache) # {}
            => (last_call'.op = "prove" /\ last_call'.result[1] = "Ok")]_vars

\* C18's case: prove failed on a full cache.
C18_Witness ==
    /\ last_call.op = "prove" /\ last_call.result[1] = "Err"
    /\ Len(proof_cache) = cache_cap

\* C19: the cache never holds more entries than its capacity, and a prove that inserts
\* into a full cache evicts exactly one entry, the least recently used one: the entry
\* at the end of the recency order, never the one a verify has just looked up.
C19_CacheBounded ==
    /\ [](Len(proof_cache) <= cache_cap)
    /\ [][(nonce' = nonce + 1 /\ Len(proof_cache) = cache_cap)
            => /\ Len(proof_cache') = cache_cap
               /\ CacheKeys(proof_cache') =
                    (CacheKeys(proof_cache) \ {proof_cache[Len(proof_cache)].key})
                    \cup {last_call'.result[2].hash}
               /\ (cache_cap >= 2 /\ last_call.op = "verify"
                     /\ last_call.pd.hash \in CacheKeys(proof_cache))
                  => last_call.pd.hash \in CacheKeys(proof_cache')]_vars

\* C19's case: a prove filled a cache of capacity 2 again, evicting the second proof
\* because a verify had looked up the first.
C19_Witness ==
    /\ last_call.op = "prove" /\ last_call.result[1] = "Ok"
    /\ cache_cap = 2 /\ Len(last_call.before) = 2 /\ Len(proof_cache) = 2
    /\ last_call.before[1].value.r < last_call.before[2].value.r
    /\ proof_cache[2] = last_call.before[1]

\* C20: the ProofData prove returns carries exactly five public inputs
\* (program_digest, initial_state_digest, final_state_digest, gas_used, state_root).
C20_FivePublicInputs ==
    (last_call.op = "prove" /\ last_call.result[1] = "Ok")
    => Len(last_call.result[2].public_inputs) = 5

C30_VerifyLeavesCache ==
    [][last_call'.op \in {"verify", "batch_verify"} => proof_cache' = proof_cache]_vars

\* C33: after a successful ZKVM::execute, get_gas_used() is the gas the run consumed:
\* the gas limit minus the VM's gas_remaining.
C33_GasUsedIsConsumed == result = <<"Ok">> => vm_state.gas_used = GasLimit - gas

\* C34: execute returns Ok or an error value for every program and never aborts on an
\* out-of-range read.
C34_NeverAborts == result[1] # "panic"

\* C35: storage and logs are empty in every reachable state; every successful execute
\* leaves the root of the empty state, whatever the program is, and a first execute
\* that returns an error leaves the root all-zero, as every failing pass leaves it
\* as it was.
C35_StorageAndLogsEmpty ==
    /\ [](/\ storage = <<>>
          /\ logs = <<>>
          /\ (result = <<"Ok">> => state_root = Blake2b32(<<>>))
          /\ ((result[1] = "Err" /\ returned = <<>>) => state_root = ZeroRoot))
    /\ [][result'[1] = "Err" => state_root' = state_root]_vars

\* C35's case: a run that completed a STORE returned Ok with the root of the empty
\* state and a memory that is not empty.
C35_Witness ==
    /\ result = <<"Ok">>
    /\ \E i \in DOMAIN executed : executed[i].opcode = 4
    /\ DOMAIN memory # {}
    /\ storage = <<>>
    /\ state_root = Blake2b32(<<>>)

---------------------------------------------------------------------------
(* Properties of the circuit and of generate_proof *)

\* C21: every generate_proof made after a successful execute returns a ProofData, in
\* every round on one ZKVM.
C21_EveryRoundProves == last_call.op = "generate_proof" => last_call.result[1] = "Ok"

\* The state VM::new builds, as a circuit VMState.
RunInitialState == FieldState(<<>>, <<>>, <<>>, 0, GasLimit)

\* The state the run left, as a circuit VMState: an Int as the field element of its
\* number, the memory map as the vector of its cells with zero in the gaps.
RunFinalState ==
    LET top == IF DOMAIN memory = {} THEN 0
               ELSE 1 + CHOOSE a \in DOMAIN memory : \A b \in DOMAIN memory : b <= a
    IN FieldState([i \in 1..Len(stack) |-> stack[i].v],
                  [i \in 1..top |-> IF i - 1 \in DOMAIN memory THEN memory[i - 1].v ELSE 0],
                  [i \in 1..Len(storage) |-> <<storage[i].key, storage[i].value.v>>],
                  pc, gas)

\* The run left only Int values.
IntOnly ==
    /\ \A i \in DOMAIN stack : IsInt(stack[i])
    /\ \A a \in DOMAIN memory : IsInt(memory[a])
    /\ \A i \in DOMAIN storage : IsInt(storage[i].value)

\* C22: after a successful execute, the circuit of the program with the run's initial
\* and final state as witness has every constraint satisfied.
C22_RunWitnessSatisfies ==
    (result = <<"Ok">> /\ returned = <<>> /\ IntOnly)
    => Synthesize(program, WithWitness(DefaultMaxSteps, RunInitialState, RunFinalState))
         = <<"Ok", TRUE>>

\* The final states that differ from f in one field element.
Perturbations(f) ==
    {[f EXCEPT !.stack[i] = @ + 1] : i \in DOMAIN f.stack}
    \cup {[f EXCEPT !.memory[i] = @ + 1] : i \in DOMAIN f.memory}
    \cup {[f EXCEPT !.storage[i] = <<@[1] + 1, @[2]>>] : i \in DOMAIN f.storage}
    \cup {[f EXCEPT !.storage[i] = <<@[1], @[2] + 1>>] : i \in DOMAIN f.storage}
    \cup {[f EXCEPT !.program_counter = @ + 1], [f EXCEPT !.gas_remaining = @ + 1]}

\* The outcome of synthesize when the steps left the stack st and satisfied their own
\* constraints iff ok: the final constraints on top of them.
FinalOutcome(st, ok) ==
    LET init == zkvm_circuit.initial_state
        fin == zkvm_circuit.final_state
    IN <<"Ok", /\ ok
               /\ init.program_counter = fin.program_counter
               /\ init.gas_remaining = fin.gas_remaining
               /\ ZipEq(st, fin.stack)
               /\ ZipEq(init.memory, fin.memory)
               /\ ZipEq(init.storage, fin.storage)>>

\* C31: the constraint of an ADD step is the linear a + b - r = 0 on the result
\* witness r, so the one-opcode program ADD is satisfied by every witness whose
\* final state carries the sum of the two top cells.
C31_AddIsLinear ==
    (/\ synth # <<"none">>
     /\ program = <<2>>
     /\ zkvm_circuit.initial_state # None /\ zkvm_circuit.final_state # None
     /\ Len(zkvm_circuit.initial_state.stack) >= 2
     /\ LowByte(zkvm_circuit.initial_state.program_counter) = 0)
    => LET s == zkvm_circuit.initial_state.stack
           k == Len(s)
       IN synth = FinalOutcome(Append(SubSeq(s, 1, k - 2), s[k] + s[k - 1]), TRUE)

\* C32: the arm of step i is chosen by program[i], whatever the program counter of
\* the witness: after a PUSH at index 0 the immediate byte at index 1 is run as the
\* opcode of step 1 (ADD and MUL constrain the pushed byte and the cell under it),
\* and it is only skipped when the loop ends after one step.
C32_ArmChosenByIndex ==
    (/\ synth # <<"none">>
     /\ Len(program) = 2 /\ program[1] = 1
     /\ zkvm_circuit.initial_state # None /\ zkvm_circuit.final_state # None)
    => LET s == zkvm_circuit.initial_state.stack
           k == Len(s)
           x == program[2]
           r == IF x = 2 THEN s[k] + s[k - 1] ELSE s[k] * s[k - 1]
       IN IF ~(zkvm_circuit.max_steps >= 2 /\ x \in {2, 3} /\ k >= 1)
          THEN synth = FinalOutcome(Append(s, x), TRUE)
          ELSE IF k < 2 THEN synth[1] = "panic"
          ELSE synth = FinalOutcome(Append(SubSeq(s, 1, k - 1), r), x * s[k] = r)

\* C32's case: PUSH 2 was synthesized with a witness whose program counter points
\* at the immediate, and the immediate was run as ADD.
C32_Witness ==
    /\ program = <<1, 2>>
    /\ zkvm_circuit.max_steps >= 2
    /\ zkvm_circuit.initial_state # None /\ zkvm_circuit.final_state # None
    /\ zkvm_circuit.initial_state.program_counter = 1
    /\ Len(zkvm_circuit.initial_state.stack) = 2
    /\ synth = <<"Ok", TRUE>>

\* C23: from a witness that satisfies the circuit, a change of one field element of
\* final_state leaves some constraint unsatisfied.
C23_PerturbationUnsatisfied ==
    synth = <<"Ok", TRUE>>
    => \A f \in Perturbations(zkvm_circuit.final_state) :
          Synthesize(program, [zkvm_circuit EXCEPT !.final_state = f]) # <<"Ok", TRUE>>

\* An ADD or MUL was applied to operands whose true result is outside i64.
ArithOverflowed ==
    \/ arith.op = "add" /\ AddOverflows(arith.a, arith.b)
    \/ arith.op = "mul" /\ MulOverflows(arith.a, arith.b)

\* C24: ADD and MUL whose true result is outside i64 succeed and give the result
\* reduced modulo 2^64.
C24_SilentWrap ==
    ArithOverflowed
    => arith.outcome = <<"Ok", IF arith.op = "add" THEN WrappingAdd(arith.a, arith.b)
                               ELSE WrappingMul(arith.a, arith.b)>>

---------------------------------------------------------------------------
(* Properties of the peers, under PeerSpec *)

\* C25: update_reputation adds delta with saturation, and a peer whose reputation has
\* come down to -100 or below is banned.
C25_BannedAtMinus100 ==
    [][peer_call'.op = "update_reputation"
         => LET id == peer_call'.id
            IN /\ peers'[id].reputation = SaturatingAdd(peers[id].reputation, peer_call'.delta)
               /\ (peers'[id].reputation <= 0 - 100 => IsBanned(peers'[id]))]_vars

\* C26: the manager never holds more than max_peers peers, and add_peer on a full
\* manager returns an error and leaves the peers as they were.
C26_AtMostMaxPeers ==
    /\ [](Cardinality(DOMAIN peers) <= max_peers)
    /\ [][(peer_call'.op = "add_peer" /\ Cardinality(DOMAIN peers) >= max_peers)
            => (peer_call'.result[1] = "Err" /\ peers' = peers)]_vars

\* C26's case: a manager of capacity 2 holding two peers has refused a third, after
\* peers were banned and unbanned.
C26_Witness ==
    /\ max_peers = 2
    /\ Cardinality(DOMAIN peers) = 2
    /\ peer_call = [op |-> "add_peer", result |-> <<"Err", "Max peers reached">>]
    /\ banned_peers # {}

---------------------------------------------------------------------------
(* Properties of state sync, under SyncSpec *)

\* C27: when a response answers the one request that is pending (same block number,
\* account and storage keys), with one peer and nothing queued or timed out, the
\* request is off the peer's pending list and the status is Idle.
C27_SyncCompletes ==
    [][(/\ sync_call'.n = sync_call.n + 1
        /\ sync_call'.op = "handle_response"
        /\ sync_state.status[1] = "Syncing"
        /\ sync_state.sync_queue = <<>>
        /\ now - sync_state.last_progress <= SyncTimeout
        /\ \E p \in DOMAIN sync_state.pending_requests :
              /\ DOMAIN sync_state.pending_requests = {p}
              /\ Len(sync_state.pending_requests[p]) = 1
              /\ sync_state.pending_requests[p][1].block_number
                    = sync_call'.request.block_number
              /\ now - sync_state.pending_requests[p][1].timestamp <= RequestTimeout)
         => /\ \A p \in DOMAIN sync_state'.pending_requests :
                  sync_state'.pending_requests[p] = <<>>
            /\ sync_state'.status = <<"Idle">>]_vars

\* C28: when the status is Syncing and more than 300 seconds have passed since the
\* last progress, the status after the next handle_request or handle_response is
\* Error.
C28_SyncTimesOut ==
    [][(/\ sync_call'.n = sync_call.n + 1
        /\ sync_call'.op \in {"handle_request", "handle_response"}
        /\ sync_state.status[1] = "Syncing"
        /\ now - sync_state.last_progress > SyncTimeout)
         => sync_state'.status[1] = "Error"]_vars

\* How many times the request r occurs in the list.
Occurrences(requests, r) == Cardinality({i \in DOMAIN requests : requests[i] = r})

\* The number of timeouts counted for r.
Timeouts(s, r) == IF r \in DOMAIN s.failed_requests THEN s.failed_requests[r] ELSE 0

\* r is in the queue, in a pending list or in the completed set.
Held(s, r) ==
    \/ Occurrences(s.sync_queue, r) > 0
    \/ \E p \in DOMAIN s.pending_requests : Occurrences(s.pending_requests[p], r) > 0
    \/ r \in s.completed_requests

\* The requests the state or the call knows of.
KnownRequests(s, c) ==
    {s.sync_queue[i] : i \in DOMAIN s.sync_queue}
    \cup UNION {{s.pending_requests[p][i] : i \in DOMAIN s.pending_requests[p]} :
                   p \in DOMAIN s.pending_requests}
    \cup s.completed_requests \cup DOMAIN s.failed_requests
    \cup (IF c.op = "handle_request" THEN {c.request} ELSE {})

\* C38: a request with RetryLimit timeouts counted is not put on any peer's pending
\* list again and leaves the queue only in a call that returns SyncError; a
\* SyncError always reports a count of at least RetryLimit that some request has,
\* and a request with fewer timeouts that was held or handed in is still in the
\* queue, a pending list or the completed set after the call.
C38_RetryLimit ==
    [][sync_call'.n = sync_call.n + 1 =>
        /\ \A r \in KnownRequests(sync_state, sync_call') :
              IF Timeouts(sync_state', r) >= RetryLimit
              THEN /\ \A p \in DOMAIN sync_state'.pending_requests :
                         Occurrences(sync_state'.pending_requests[p], r)
                            <= IF p \in DOMAIN sync_state.pending_requests
                               THEN Occurrences(sync_state.pending_requests[p], r) ELSE 0
                   /\ sync_call'.result = <<"Ok">>
                         => Occurrences(sync_state'.sync_queue, r)
                               >= Occurrences(sync_state.sync_queue, r)
              ELSE (Held(sync_state, r)
                    \/ (sync_call'.op = "handle_request" /\ sync_call'.request = r))
                       => Held(sync_state', r)
        /\ sync_call'.result[1] = "Err"
              => /\ sync_call'.result[3] >= RetryLimit
                 /\ \E r \in KnownRequests(sync_state, sync_call') :
                       Timeouts(sync_state', r) = sync_call'.result[3]]_vars

\* C38's case: a call returned SyncError for a request that had timed out RetryLimit
\* times, while a request with fewer timeouts is still queued or pending.
C38_Witness ==
    /\ sync_call.op \in {"handle_request", "handle_response"}
    /\ sync_call.result[1] = "Err"
    /\ \E r \in DOMAIN sync_state.failed_requests : sync_state.failed_requests[r] >= RetryLimit
    /\ \E r \in KnownRequests(sync_state, sync_call) :
          /\ Timeouts(sync_state, r) < RetryLimit
          /\ r \notin sync_state.completed_requests
          /\ Held(sync_state, r)

\* The voters of the hash h in the state s.
VotesFor(s, h) == IF h \in DOMAIN s.votes THEN s.votes[h] ELSE {}

\* C36: a pending block leaves pending_blocks, and finalized_blocks changes, only in
\* a submit_vote for that block's hash after which the voters of the hash are more
\* than two thirds of the registered validators; a voter is added only by its own
\* submit_vote while it is registered with a stake of at least the threshold, and
\* a vote of a validator that has already voted leaves the voters as they were.
C36_FinalizedByTwoThirds ==
    [][/\ \A h \in DOMAIN consensus.pending_blocks :
             (h \notin DOMAIN consensus'.pending_blocks \/ consensus'.finalized_blocks # consensus.finalized_blocks)
             => (h \in DOMAIN consensus'.pending_blocks
                 \/ /\ cons_call'.n = cons_call.n + 1
                    /\ cons_call'.op = "submit_vote"
                    /\ cons_call'.block_hash = h
                    /\ Cardinality(VotesFor(consensus', h)) * 3
                          > Cardinality(DOMAIN consensus'.validators) * 2
                    /\ VotesFor(consensus', h) \subseteq DOMAIN consensus'.validators
                    /\ LET b == consensus.pending_blocks[h]
                       IN /\ b.header.number \in DOMAIN consensus'.finalized_blocks
                          /\ consensus'.finalized_blocks[b.header.number] = b)
       /\ consensus'.finalized_blocks # consensus.finalized_blocks
             => \E h \in DOMAIN consensus.pending_blocks :
                   h \notin DOMAIN consensus'.pending_blocks
       /\ \A h \in DOMAIN consensus'.votes :
             /\ \A v \in VotesFor(consensus', h) \ VotesFor(consensus, h) :
                   /\ cons_call'.n = cons_call.n + 1
                   /\ cons_call'.op = "submit_vote"
                   /\ cons_call'.validator = v /\ cons_call'.block_hash = h
                   /\ v \in DOMAIN consensus.validators
                   /\ consensus.validators[v].stake >= ValidatorStakeThreshold
             /\ (/\ cons_call'.n = cons_call.n + 1
                 /\ cons_call'.op = "submit_vote"
                 /\ cons_call'.block_hash = h
                 /\ cons_call'.validator \in VotesFor(consensus, h))
                => VotesFor(consensus', h) = VotesFor(consensus, h)]_vars

\* C36's case: with three validators registered, one of them below the threshold
\* at the end, a submit_vote has just finalized a block.
C36_Witness ==
    /\ cons_call.op = "submit_vote"
    /\ consensus.last_finalized_time = cons_call.n
    /\ Cardinality(DOMAIN consensus.validators) = 3
    /\ \E v \in DOMAIN consensus.validators :
          consensus.validators[v].stake < ValidatorStakeThreshold
    /\ cons_call.block_hash \notin DOMAIN consensus.pending_blocks
    /\ DOMAIN consensus.finalized_blocks # {}

\* C37: a block number that has a finalized block keeps that block, whatever
\* process_block and submit_vote calls follow.
C37_FinalityUnique ==
    [][\A k \in DOMAIN consensus.finalized_blocks :
          /\ k \in DOMAIN consensus'.finalized_blocks
          /\ consensus'.finalized_blocks[k] = consensus.finalized_blocks[k]]_vars

\* C40: after collect the list holds exactly the segments of the list it was given
\* that are shared or owned, in their order, wherever the other segments stood.
C40_CollectKeepsRoots ==
    gc_call.op = "collect" => segments = SelectSeq(gc_call.given, IsRootSegment)

=============================================================================
